---------------------------- MODULE Spec2Model ----------------------------
(***************************************************************************)
(* A model of the nand2tetris toolchain of this repository: the Hack       *)
(* assembler (projects/06_assembler/assempler.py) and the VM translator    *)
(* (projects/07_stack_arithmetics/vm_translator.py), together with the     *)
(* Hack machine that runs the translator's output.                         *)
(*                                                                         *)
(* Text is modelled as the sequence of its characters: the Python string   *)
(* 'M=D' is <<"M","=","D">>.  A list of strings is a sequence of such      *)
(* sequences.  An exception (ValueError) is the sentinel ValueError, which *)
(* no text equals.                                                         *)
(***************************************************************************)
EXTENDS Integers, Sequences, FiniteSets, TLC

VARIABLES
    \* ---- assembler (assempler.py, module level lines 519-523)
    asm_file,          \* the cleaned lines of the .asm file
    a_phase,           \* "labels" | "variables" | "emit" | "done" | "error"
    a_i,               \* position of the running pass in asm_file (1-based)
    program_counter,   \* add_user_labels' program_counter
    variable_counter,  \* add_user_variables' variable_counter
    symbol_table,      \* the symbol table under construction
    a_out,             \* the text assemble_lines has joined so far
    \* ---- assembler, one C-instruction
    c_fields,          \* the dest, comp and jump the instruction was written from
    c_instruction,     \* the C-instruction handed to assemble_c_instruction
    c_binary,          \* its result, <<>> before the call
    \* ---- VM translator (vm_translator.py, translate_and_post_process_file)
    tr_file_path,         \* the name of the .vm file
    vm_lines,          \* the lines of the file translate_file has gone through
    tr_scope,             \* translate_file's scope
    tr_asm_code_lines,    \* translate_file's asm_code_lines
    \* ---- the Hack machine running a translated file
    vm_program,        \* the lines of the .vm file put through the toolchain
    starts,            \* the instruction address at which each VM line's code begins
    ROM,               \* the instructions loaded into the machine
    PC,                \* the address of the next instruction
    reg_A,             \* the A register
    reg_D,             \* the D register
    RAM,               \* the memory cells written or preset so far (others are 0)
    entry,             \* the VM instruction last begun: its index, RAM and the
                       \* VM's stack height at that moment
    \* ---- the Jack compiler (compiler.py, process_file)
    jack_class,        \* the class written in the .jack file
    jk_phase,          \* "ready" | "compiling" | "done" | the exception raised
    jk_scope,          \* the scope the running call holds
    jk_calls,          \* the calls in progress, the running one last
    jk_returned,       \* <<status, lines>> the call just ended returned, or <<>>
    jk_vm,             \* the lines process_file joins
    \* ---- the Jack tokenizer (compiler.py, tokenize)
    tk_text,           \* the text read_file returned
    tk_phase,          \* "tokenizing" | "done" | the exception raised
    tk_chars,          \* tokenize's chars: the text not eaten yet
    tk_tokens          \* tokenize's tokens

asm_vars == <<asm_file, a_phase, a_i, program_counter, variable_counter,
              symbol_table, a_out>>
enc_vars == <<c_fields, c_instruction, c_binary>>
tr_vars == <<tr_file_path, vm_lines, tr_scope, tr_asm_code_lines>>
hack_vars == <<vm_program, starts, ROM, PC, reg_A, reg_D, RAM, entry>>
compiler_vars == <<jack_class, jk_phase, jk_scope, jk_calls, jk_returned, jk_vm>>
tok_vars == <<tk_text, tk_phase, tk_chars, tk_tokens>>
jack_vars == <<compiler_vars, tok_vars>>
vars == <<asm_vars, enc_vars, tr_vars, hack_vars, jack_vars>>

---------------------------------------------------------------------------
(* Python text primitives *)

ValueError == <<"ValueError">>

DigitChars == <<"0","1","2","3","4","5","6","7","8","9">>

IsDigit(c) == \E d \in 1..10 : DigitChars[d] = c

DigitVal(c) == (CHOOSE d \in 1..10 : DigitChars[d] = c) - 1

\* str(n) of a Python int, as in an f-string
RECURSIVE str(_)
str(n) ==
    IF n < 0 THEN <<"-">> \o str(0 - n)
    ELSE IF n < 10 THEN <<DigitChars[n + 1]>>
    ELSE str(n \div 10) \o <<DigitChars[(n % 10) + 1]>>

RECURSIVE digits_value(_)
digits_value(s) ==
    IF s = <<>> THEN 0
    ELSE 10 * digits_value(SubSeq(s, 1, Len(s) - 1)) + DigitVal(s[Len(s)])

AllDigits(s) == s # <<>> /\ \A i \in 1..Len(s) : IsDigit(s[i])

\* Python's int(string) succeeds on an optional sign followed by digits
int_parses(s) ==
    \/ AllDigits(s)
    \/ Len(s) > 1 /\ s[1] \in {"+", "-"} /\ AllDigits(Tail(s))

int(s) ==
    IF s[1] = "-" THEN 0 - digits_value(Tail(s))
    ELSE IF s[1] = "+" THEN digits_value(Tail(s))
    ELSE digits_value(s)

contains(s, c) == \E i \in 1..Len(s) : s[i] = c

index_of(s, c) == CHOOSE i \in 1..Len(s) : s[i] = c /\ \A j \in 1..(i - 1) : s[j] # c

\* s.split(c) for a one-character separator
RECURSIVE split(_, _)
split(s, c) ==
    IF contains(s, c)
    THEN <<SubSeq(s, 1, index_of(s, c) - 1)>>
             \o split(SubSeq(s, index_of(s, c) + 1, Len(s)), c)
    ELSE <<s>>

\* s.replace(a, b) for one-character a and b
replace(s, a, b) == [i \in 1..Len(s) |-> IF s[i] = a THEN b ELSE s[i]]

\* s.strip(chars)
RECURSIVE lstrip(_, _)
lstrip(s, chars) ==
    IF s # <<>> /\ s[1] \in chars THEN lstrip(Tail(s), chars) ELSE s

RECURSIVE rstrip(_, _)
rstrip(s, chars) ==
    IF s # <<>> /\ s[Len(s)] \in chars
    THEN rstrip(SubSeq(s, 1, Len(s) - 1), chars) ELSE s

strip(s, chars) == rstrip(lstrip(s, chars), chars)

startswith(s, c) == s # <<>> /\ s[1] = c
endswith(s, c) == s # <<>> /\ s[Len(s)] = c

\* the text before the first "//" of s
RECURSIVE before_comment(_)
before_comment(s) ==
    IF Len(s) < 2 THEN s
    ELSE IF s[1] = "/" /\ s[2] = "/" THEN <<>>
    ELSE <<s[1]>> \o before_comment(Tail(s))

Whitespace == {" ", "\t", "\n", "\r"}

remove_whitespace(s) == SelectSeq(s, LAMBDA c : c \notin Whitespace)

---------------------------------------------------------------------------
(* Assembler: file parsing *)

filter_comment_and_blank_in_line(l) == before_comment(remove_whitespace(l))

\* load_asm_file applied to the lines of the file
load_asm_file(lines) ==
    SelectSeq([i \in 1..Len(lines) |-> filter_comment_and_blank_in_line(lines[i])],
              LAMBDA l : Len(l) > 0)

is_label(line) == startswith(line, "(") /\ endswith(line, ")")

extract_label_name(label_declaration) == strip(label_declaration, {"(", ")"})

is_a_instruction(line) == startswith(line, "@")

---------------------------------------------------------------------------
(* Assembler: symbol table *)

PredefinedNames ==
    {<<"@","S","P">>, <<"@","L","C","L">>, <<"@","A","R","G">>, <<"@","T","H","I","S">>, <<"@","T","H","A","T">>, <<"@","S","C","R","E","E","N">>, <<"@","K","B","D">>}
        \cup {<<"@","R">> \o str(i) : i \in 0..15}

default_symbol_table ==
    [key \in PredefinedNames |->
        CASE key = <<"@","S","P">> -> 0
          [] key = <<"@","L","C","L">> -> 1
          [] key = <<"@","A","R","G">> -> 2
          [] key = <<"@","T","H","I","S">> -> 3
          [] key = <<"@","T","H","A","T">> -> 4
          [] key = <<"@","S","C","R","E","E","N">> -> 16384
          [] key = <<"@","K","B","D">> -> 24576
          [] OTHER -> int(SubSeq(key, 3, Len(key)))]

\* mutant: a label line advances the program counter too
inc_p_c_counting_labels(line, pc) == pc + 1

inc_p_c(line, pc) == IF is_label(line) THEN pc ELSE pc + 1

insert_into(table, label, value) ==
    [k \in (DOMAIN table) \cup {label} |-> IF k = label THEN value ELSE table[k]]

\* a symbol table standing for the exception raised instead of returning one
Raised == [k \in {ValueError} |-> 0]

add_label(label, table, pc) ==
    IF label \in DOMAIN table
    THEN Raised
    ELSE insert_into(table, <<"@">> \o label, pc)

find_and_add_labels(line, pc, table) ==
    IF is_label(line)
    THEN add_label(extract_label_name(line), table, pc)
    ELSE table

\* add_user_labels' loop over asm_lines[lo..hi], from and to the pair
\* <<program_counter, symbol_table>>; the range is walked by halves
RECURSIVE add_user_labels_from(_, _, _, _)
add_user_labels_from(asm_lines, lo, hi, state) ==
    IF lo > hi \/ state[2] = Raised THEN state
    ELSE IF lo = hi
         THEN <<inc_p_c(asm_lines[lo], state[1]),
                find_and_add_labels(asm_lines[lo], state[1], state[2])>>
    ELSE add_user_labels_from(asm_lines, (lo + hi) \div 2 + 1, hi,
             add_user_labels_from(asm_lines, lo, (lo + hi) \div 2, state))

add_user_labels(asm_lines, pc, table) ==
    add_user_labels_from(asm_lines, 1, Len(asm_lines), <<pc, table>>)[2]

is_int(string) == int_parses(string)

\* mutant: a number spends a variable address
find_and_add_variables_spending_on_numbers(line, vc, table) ==
    IF ~is_a_instruction(line) THEN <<vc, table>>
    ELSE IF line \in DOMAIN table THEN <<vc, table>>
    ELSE IF is_int(Tail(line))
         THEN <<vc + 1, insert_into(table, line, int(Tail(line)))>>
    ELSE <<vc + 1, insert_into(table, line, vc)>>

\* <<variable_counter, symbol_table>>
find_and_add_variables(line, vc, table) ==
    IF ~is_a_instruction(line) THEN <<vc, table>>
    ELSE IF line \in DOMAIN table THEN <<vc, table>>
    ELSE IF is_int(Tail(line))
         THEN <<vc, insert_into(table, line, int(Tail(line)))>>
    ELSE <<vc + 1, insert_into(table, line, vc)>>

\* add_user_variables' loop over asm_lines[lo..hi], from and to the pair
\* <<variable_counter, symbol_table>>; the range is walked by halves
RECURSIVE add_user_variables_from(_, _, _, _)
add_user_variables_from(asm_lines, lo, hi, state) ==
    IF lo > hi \/ state[2] = Raised THEN state
    ELSE IF lo = hi THEN find_and_add_variables(asm_lines[lo], state[1], state[2])
    ELSE add_user_variables_from(asm_lines, (lo + hi) \div 2 + 1, hi,
             add_user_variables_from(asm_lines, lo, (lo + hi) \div 2, state))

add_user_variables(asm_lines, vc, table) ==
    IF table = Raised THEN Raised
    ELSE add_user_variables_from(asm_lines, 1, Len(asm_lines), <<vc, table>>)[2]

---------------------------------------------------------------------------
(* Assembler: assembling *)

RECURSIVE int_to_binary_bits(_, _)
int_to_binary_bits(integer, bits) ==
    IF bits < 0 THEN <<>>
    ELSE <<IF integer >= 2 ^ bits THEN "1" ELSE "0">>
             \o int_to_binary_bits(integer % (2 ^ bits), bits - 1)

int_to_binary(integer) == int_to_binary_bits(integer, 15)

get_dest(c) == IF contains(c, "=") THEN split(c, "=")[1] ELSE <<>>

LegalDests == {<<>>, <<"A">>, <<"D">>, <<"M">>, <<"A","D">>, <<"A","M">>, <<"M","D">>, <<"A","D","M">>}

assemble_dest(dest) ==
    IF dest \notin LegalDests THEN ValueError
    ELSE <<IF contains(dest, "A") THEN "1" ELSE "0",
           IF contains(dest, "D") THEN "1" ELSE "0",
           IF contains(dest, "M") THEN "1" ELSE "0">>

get_jump(c) == IF contains(c, ";") THEN split(c, ";")[2] ELSE <<>>

LegalJumps == {<<"J","M","P">>, <<"J","E","Q">>, <<"J","L","T">>, <<"J","L","E">>, <<"J","G","T">>, <<"J","G","E">>, <<"J","N","E">>}

\* mutant: the three bits read off the letters L, E, G alone
assemble_jump_by_letters(jump) ==
    IF Len(jump) = 0 THEN <<"0","0","0">>
    ELSE IF jump \notin LegalJumps THEN ValueError
    ELSE IF jump = <<"J","M","P">> THEN <<"1","1","1">>
    ELSE str(IF contains(jump, "L") THEN 1 ELSE 0)
           \o str(IF contains(jump, "E") THEN 1 ELSE 0)
           \o str(IF contains(jump, "G") THEN 1 ELSE 0)

assemble_jump(jump) ==
    IF Len(jump) = 0 THEN <<"0","0","0">>
    ELSE IF jump \notin LegalJumps THEN ValueError
    ELSE IF jump = <<"J","M","P">> THEN <<"1","1","1">>
    ELSE str(IF contains(jump, "L") \/ jump = <<"J","N","E">> THEN 1 ELSE 0)
           \o str(IF contains(jump, "E") /\ jump # <<"J","N","E">> THEN 1 ELSE 0)
           \o str(IF contains(jump, "G") \/ jump = <<"J","N","E">> THEN 1 ELSE 0)

get_op_code(c) ==
    IF contains(c, "=") THEN split(split(c, "=")[2], ";")[1]
    ELSE split(c, ";")[1]

assemble_op_code_no_M(op_code) ==
    CASE op_code = <<"0">> -> <<"1","0","1","0","1","0">>
      [] op_code = <<"1">> -> <<"1","1","1","1","1","1">>
      [] op_code = <<"-","1">> -> <<"1","1","1","0","1","0">>
      [] op_code = <<"D">> -> <<"0","0","1","1","0","0">>
      [] op_code = <<"A">> -> <<"1","1","0","0","0","0">>
      [] op_code = <<"!","D">> -> <<"0","0","1","1","0","1">>
      [] op_code = <<"!","A">> -> <<"1","1","0","0","0","1">>
      [] op_code = <<"-","D">> -> <<"0","0","1","1","1","1">>
      [] op_code = <<"-","A">> -> <<"1","1","0","0","1","1">>
      [] op_code = <<"D","+","1">> -> <<"0","1","1","1","1","1">>
      [] op_code = <<"A","+","1">> -> <<"1","1","0","1","1","1">>
      [] op_code = <<"D","-","1">> -> <<"0","0","1","1","1","0">>
      [] op_code = <<"A","-","1">> -> <<"1","1","0","0","1","0">>
      [] op_code = <<"D","+","A">> -> <<"0","0","0","0","1","0">>
      [] op_code = <<"D","-","A">> -> <<"0","1","0","0","1","1">>
      [] op_code = <<"A","-","D">> -> <<"0","0","0","1","1","1">>
      [] op_code = <<"D","&","A">> -> <<"0","0","0","0","0","0">>
      [] op_code = <<"D","|","A">> -> <<"0","1","0","1","0","1">>
      [] OTHER -> ValueError

assemble_op_code(op_code) ==
    LET code == assemble_op_code_no_M(replace(op_code, "M", "A"))
    IN  IF code = ValueError THEN ValueError
        ELSE <<IF contains(op_code, "M") THEN "1" ELSE "0">> \o code

\* the operands are evaluated left to right: the first error is the one raised
assemble_c_instruction(c) ==
    IF assemble_op_code(get_op_code(c)) = ValueError THEN ValueError
    ELSE IF assemble_dest(get_dest(c)) = ValueError THEN ValueError
    ELSE IF assemble_jump(get_jump(c)) = ValueError THEN ValueError
    ELSE <<"1","1","1">> \o assemble_op_code(get_op_code(c))
                \o assemble_dest(get_dest(c))
                \o assemble_jump(get_jump(c))

\* a KeyError cannot happen: the variable pass has entered every A-instruction
assemble_line(line, table) ==
    IF is_label(line) THEN <<>>
    ELSE IF is_a_instruction(line) THEN int_to_binary(table[line]) \o <<"\n">>
    ELSE IF assemble_c_instruction(line) = ValueError THEN ValueError
    ELSE assemble_c_instruction(line) \o <<"\n">>

---------------------------------------------------------------------------
(* VM translator (vm_translator.py).  A translation function returns the   *)
(* pair <<assembly lines, scope>>.                                         *)

new_scope(function_name, scope_stack) ==
    [function |-> function_name,
     lt_counter |-> 0,
     eq_counter |-> 0,
     gt_counter |-> 0,
     call_counter |-> 0,
     scope_stack |-> scope_stack]

inc_scope_key(scope, key) == [scope EXCEPT ![key] = @ + 1]

\* s.split(sub)[0] for a text sub: s up to the first occurrence of sub
RECURSIVE before_text(_, _)
before_text(s, sub) ==
    IF Len(s) < Len(sub) THEN s
    ELSE IF SubSeq(s, 1, Len(sub)) = sub THEN <<>>
    ELSE <<s[1]>> \o before_text(Tail(s), sub)

get_file_name(path) ==
    before_text(split(path, "/")[Len(split(path, "/"))], <<".","v","m">>)

comment(string) == <<"/","/"," ">> \o string

inc_stack == <<<<"@","S","P">>, <<"M","=","M","+","1">>>>

dec_stack == <<<<"@","S","P">>, <<"M","=","M","-","1">>>>

point == <<<<"A","=","M">>>>

dec_stack_and_point == dec_stack \o point

set_d_at(i) == <<<<"@">> \o i, <<"D","=","A">>>>

push_D == <<<<"@","S","P">>, <<"A","=","M">>, <<"M","=","D">>>>

set_D_to_constant(i, scope) == set_d_at(i)

set_D_to_direct_segment(base, i, scope) ==
    set_d_at(i) \o <<<<"@">> \o base, <<"A","=","D","+","A">>, <<"D","=","M">>>>

put_pointed_segment_into_D(base, i, scope) ==
    set_d_at(i) \o <<<<"@">> \o base, <<"A","=","D","+","M">>, <<"D","=","M">>>>

get_static_label(scope, i) ==
    <<<<"@">> \o split(scope.function, ".")[1] \o <<".">> \o i>>

put_static_into_D(i, scope) == get_static_label(scope, i) \o <<<<"D","=","M">>>>

put_segment_into_D_map(segment, i, scope) ==
    CASE segment = <<"l","o","c","a","l">> -> put_pointed_segment_into_D(<<"L","C","L">>, i, scope)
      [] segment = <<"a","r","g","u","m","e","n","t">> -> put_pointed_segment_into_D(<<"A","R","G">>, i, scope)
      [] segment = <<"t","h","i","s">> -> put_pointed_segment_into_D(<<"T","H","I","S">>, i, scope)
      [] segment = <<"t","h","a","t">> -> put_pointed_segment_into_D(<<"T","H","A","T">>, i, scope)
      [] segment = <<"c","o","n","s","t","a","n","t">> -> set_D_to_constant(i, scope)
      [] segment = <<"s","t","a","t","i","c">> -> put_static_into_D(i, scope)
      [] segment = <<"p","o","i","n","t","e","r">> -> set_D_to_direct_segment(<<"3">>, i, scope)
      [] segment = <<"t","e","m","p">> -> set_D_to_direct_segment(<<"5">>, i, scope)

get_segment(instruction) == split(instruction, " ")[2]

get_index(instruction) == split(instruction, " ")[3]

push(push_instruction, scope) ==
    <<put_segment_into_D_map(get_segment(push_instruction),
                             get_index(push_instruction), scope) \o push_D,
      scope>>

put_var_addr_into_d_map(segment, i, scope) ==
    CASE segment = <<"l","o","c","a","l">> -> set_d_at(i) \o <<<<"@","L","C","L">>, <<"D","=","D","+","M">>>>
      [] segment = <<"a","r","g","u","m","e","n","t">> -> set_d_at(i) \o <<<<"@","A","R","G">>, <<"D","=","D","+","M">>>>
      [] segment = <<"t","h","i","s">> -> set_d_at(i) \o <<<<"@","T","H","I","S">>, <<"D","=","D","+","M">>>>
      [] segment = <<"t","h","a","t">> -> set_d_at(i) \o <<<<"@","T","H","A","T">>, <<"D","=","D","+","M">>>>
      [] segment = <<"s","t","a","t","i","c">> -> get_static_label(scope, i) \o <<<<"D","=","A">>>>
      [] segment = <<"p","o","i","n","t","e","r">> -> set_d_at(i) \o <<<<"@","3">>, <<"D","=","D","+","A">>>>
      [] segment = <<"t","e","m","p">> -> set_d_at(i) \o <<<<"@","5">>, <<"D","=","D","+","A">>>>

append_d_to_stack == <<<<"@","S","P">>, <<"A","=","M","+","1">>, <<"M","=","D">>>>

pop_current_to_segment(pop_instruction, scope) ==
    put_var_addr_into_d_map(get_segment(pop_instruction),
                            get_index(pop_instruction), scope)
        \o append_d_to_stack
        \o <<<<"A","=","A","-","1">>, <<"D","=","M">>>>
        \o <<<<"A","=","A","+","1">>, <<"A","=","M">>>>
        \o <<<<"M","=","D">>>>

pop(pop_instruction, scope) ==
    <<dec_stack \o pop_current_to_segment(pop_instruction, scope), scope>>

add(instruction, scope) ==
    <<dec_stack_and_point \o <<<<"D","=","M">>>> \o dec_stack_and_point \o <<<<"M","=","D","+","M">>>>, scope>>

sub(instruction, scope) ==
    <<dec_stack_and_point \o <<<<"D","=","M">>>> \o dec_stack_and_point \o <<<<"M","=","M","-","D">>>>, scope>>

sub_to_D == dec_stack_and_point \o <<<<"D","=","M">>>> \o dec_stack_and_point \o <<<<"D","=","M","-","D">>>>

neg(instruction, scope) == <<dec_stack_and_point \o <<<<"M","=","-","M">>>>, scope>>

eq(instruction, scope) ==
    <<sub_to_D \o <<
        <<"M","=","-","1">>,
        <<"@","_","_">> \o scope.function \o <<"_","e","q",".">> \o str(scope.eq_counter),
        <<"D",";","J","E","Q">>,
        <<"@","S","P">>, <<"A","=","M">>, <<"M","=","0">>,
        <<"(","_","_">> \o scope.function \o <<"_","e","q",".">> \o str(scope.eq_counter) \o <<")">>>>,
      inc_scope_key(scope, "eq_counter")>>

gt(instruction, scope) ==
    <<sub_to_D \o <<
        <<"M","=","-","1">>,
        <<"@","_","_">> \o scope.function \o <<"_","g","t",".">> \o str(scope.gt_counter),
        <<"D",";","J","G","T">>,
        <<"@","S","P">>, <<"A","=","M">>, <<"M","=","0">>,
        <<"(","_","_">> \o scope.function \o <<"_","g","t",".">> \o str(scope.gt_counter) \o <<")">>>>,
      inc_scope_key(scope, "gt_counter")>>

lt(instruction, scope) ==
    <<sub_to_D \o <<
        <<"M","=","-","1">>,
        <<"@","_","_">> \o scope.function \o <<"_","l","t",".">> \o str(scope.lt_counter),
        <<"D",";","J","L","T">>,
        <<"@","S","P">>, <<"A","=","M">>, <<"M","=","0">>,
        <<"(","_","_">> \o scope.function \o <<"_","l","t",".">> \o str(scope.lt_counter) \o <<")">>>>,
      inc_scope_key(scope, "lt_counter")>>

and_f(instruction, scope) ==
    <<dec_stack_and_point \o <<<<"D","=","M">>>> \o dec_stack_and_point \o <<<<"M","=","D","&","M">>>>, scope>>

or_f(instruction, scope) ==
    <<dec_stack_and_point \o <<<<"D","=","M">>>> \o dec_stack_and_point \o <<<<"M","=","D","|","M">>>>, scope>>

not_f(instruction, scope) == <<dec_stack_and_point \o <<<<"M","=","!","M">>>>, scope>>

get_asm_label(label_instruction, scope) ==
    scope.function \o <<"$">> \o split(label_instruction, " ")[2]

label(label_instruction, scope) ==
    <<<<<<"(">> \o get_asm_label(label_instruction, scope) \o <<")">>>>, scope>>

if_goto(if_goto_instruction, scope) ==
    <<dec_stack_and_point \o <<
        <<"D","=","M">>, <<"@">> \o get_asm_label(if_goto_instruction, scope), <<"D",";","J","N","E">>>>,
      scope>>

goto(goto_instruction, scope) ==
    <<<<<<"@">> \o get_asm_label(goto_instruction, scope), <<"0",";","J","M","P">>>>, scope>>

enter_function_scope(function_name, scope) == new_scope(function_name, <<scope>>)

get_function_name(function_instruction) == split(function_instruction, " ")[2]

get_n_locals(function_instruction) == int(split(function_instruction, " ")[3])

RECURSIVE repeat(_, _)
repeat(lines, n) == IF n <= 0 THEN <<>> ELSE lines \o repeat(lines, n - 1)

\* mutant: the stack pointer passes the locals, nothing stored in them
function_leaving_cells(function_instruction, scope) ==
    LET inner == enter_function_scope(get_function_name(function_instruction), scope)
    IN  <<<<<<"(">> \o inner.function \o <<")">>, <<"@","0">>, <<"D","=","A">>>>
            \o repeat(point \o inc_stack, get_n_locals(function_instruction)),
          inner>>

function(function_instruction, scope) ==
    LET inner == enter_function_scope(get_function_name(function_instruction), scope)
    IN  <<<<<<"(">> \o inner.function \o <<")">>, <<"@","0">>, <<"D","=","A">>>>
            \o repeat(point \o <<<<"M","=","D">>>> \o inc_stack,
                      get_n_locals(function_instruction)),
          inner>>

\* mutant: the return value is stored at *ARG before the return address is
\* fetched from the frame
return_f_storing_first(instruction, scope) ==
    <<<<<<"@","A","R","G">>, <<"D","=","M">>, <<"@","5">>, <<"M","=","D">>,
        <<"@","S","P">>, <<"A","=","M","-","1">>, <<"D","=","M">>, <<"@","6">>, <<"M","=","D">>,
        <<"@","A","R","G">>, <<"D","=","M","+","1">>, <<"@","S","P">>, <<"M","=","D">>,
        <<"@","6">>, <<"D","=","M">>, <<"@","5">>, <<"A","=","M">>, <<"M","=","D">>,
        <<"@","L","C","L">>, <<"A","M","=","M","-","1">>, <<"D","=","M">>, <<"@","T","H","A","T">>, <<"M","=","D">>,
        <<"@","L","C","L">>, <<"A","M","=","M","-","1">>, <<"D","=","M">>, <<"@","T","H","I","S">>, <<"M","=","D">>,
        <<"@","L","C","L">>, <<"A","M","=","M","-","1">>, <<"D","=","M">>, <<"@","A","R","G">>, <<"M","=","D">>,
        <<"@","L","C","L">>, <<"A","M","=","M","-","1">>, <<"A","=","A","-","1">>, <<"D","=","M">>, <<"@","7">>, <<"M","=","D">>,
        <<"@","L","C","L">>, <<"A","=","M">>, <<"D","=","M">>, <<"@","L","C","L">>, <<"M","=","D">>,
        <<"@","7">>, <<"A","=","M">>, <<"0",";","J","M","P">>>>,
      scope>>

return_f(instruction, scope) ==
    <<<<<<"@","A","R","G">>, <<"D","=","M">>, <<"@","5">>, <<"M","=","D">>,
        <<"@","S","P">>, <<"A","=","M","-","1">>, <<"D","=","M">>, <<"@","6">>, <<"M","=","D">>,
        <<"@","A","R","G">>, <<"D","=","M","+","1">>, <<"@","S","P">>, <<"M","=","D">>,
        <<"@","L","C","L">>, <<"A","M","=","M","-","1">>, <<"D","=","M">>, <<"@","T","H","A","T">>, <<"M","=","D">>,
        <<"@","L","C","L">>, <<"A","M","=","M","-","1">>, <<"D","=","M">>, <<"@","T","H","I","S">>, <<"M","=","D">>,
        <<"@","L","C","L">>, <<"A","M","=","M","-","1">>, <<"D","=","M">>, <<"@","A","R","G">>, <<"M","=","D">>,
        <<"@","L","C","L">>, <<"A","M","=","M","-","1">>, <<"A","=","A","-","1">>, <<"D","=","M">>, <<"@","7">>, <<"M","=","D">>,
        <<"@","L","C","L">>, <<"A","=","M">>, <<"D","=","M">>, <<"@","L","C","L">>, <<"M","=","D">>,
        <<"@","6">>, <<"D","=","M">>, <<"@","5">>, <<"A","=","M">>, <<"M","=","D">>,
        <<"@","7">>, <<"A","=","M">>, <<"0",";","J","M","P">>>>,
      scope>>

get_n_var(call_instruction) == int(split(call_instruction, " ")[3])

get_target_func(call_instruction) == split(call_instruction, " ")[2]

\* mutant: ARG is set to SP, whatever the number of arguments
call_without_arguments(call_instruction, scope) ==
    <<<<<<"@">> \o scope.function \o <<"$","r","e","t">> \o str(scope.call_counter), <<"D","=","A">>,
        <<"@","S","P">>, <<"A","=","M">>, <<"M","=","D">>,
        <<"@","L","C","L">>, <<"D","=","M">>, <<"@","S","P">>, <<"A","=","M","+","1">>, <<"M","=","D">>,
        <<"D","=","A","+","1">>, <<"@","L","C","L">>, <<"M","=","D">>,
        <<"@","A","R","G">>, <<"D","=","M">>, <<"@","L","C","L">>, <<"A","=","M">>, <<"M","=","D">>,
        <<"@","T","H","I","S">>, <<"D","=","M">>, <<"@","L","C","L">>, <<"A","M","=","M","+","1">>, <<"M","=","D">>,
        <<"@","T","H","A","T">>, <<"D","=","M">>, <<"@","L","C","L">>, <<"A","M","=","M","+","1">>, <<"M","=","D">>,
        <<"@","S","P">>, <<"D","=","M">>,
        <<"@","A","R","G">>, <<"M","=","D">>,
        <<"@","L","C","L">>, <<"M","D","=","M","+","1">>, <<"@","S","P">>, <<"M","=","D">>,
        <<"@">> \o get_target_func(call_instruction), <<"0",";","J","M","P">>,
        <<"(">> \o scope.function \o <<"$","r","e","t">> \o str(scope.call_counter) \o <<")">>>>,
      inc_scope_key(scope, "call_counter")>>

call(call_instruction, scope) ==
    <<<<<<"@">> \o scope.function \o <<"$","r","e","t">> \o str(scope.call_counter), <<"D","=","A">>,
        <<"@","S","P">>, <<"A","=","M">>, <<"M","=","D">>,
        <<"@","L","C","L">>, <<"D","=","M">>, <<"@","S","P">>, <<"A","=","M","+","1">>, <<"M","=","D">>,
        <<"D","=","A","+","1">>, <<"@","L","C","L">>, <<"M","=","D">>,
        <<"@","A","R","G">>, <<"D","=","M">>, <<"@","L","C","L">>, <<"A","=","M">>, <<"M","=","D">>,
        <<"@","T","H","I","S">>, <<"D","=","M">>, <<"@","L","C","L">>, <<"A","M","=","M","+","1">>, <<"M","=","D">>,
        <<"@","T","H","A","T">>, <<"D","=","M">>, <<"@","L","C","L">>, <<"A","M","=","M","+","1">>, <<"M","=","D">>,
        <<"@","S","P">>, <<"D","=","M">>>>
        \o repeat(<<<<"D","=","D","-","1">>>>, get_n_var(call_instruction))
        \o <<<<"@","A","R","G">>, <<"M","=","D">>,
              <<"@","L","C","L">>, <<"M","D","=","M","+","1">>, <<"@","S","P">>, <<"M","=","D">>,
              <<"@">> \o get_target_func(call_instruction), <<"0",";","J","M","P">>,
              <<"(">> \o scope.function \o <<"$","r","e","t">> \o str(scope.call_counter) \o <<")">>>>,
      inc_scope_key(scope, "call_counter")>>

get_instruction_name(instruction) == split(instruction, " ")[1]

translation_map(name, instruction, scope) ==
    CASE name = <<"p","u","s","h">> -> push(instruction, scope)
      [] name = <<"p","o","p">> -> pop(instruction, scope)
      [] name = <<"a","d","d">> -> add(instruction, scope)
      [] name = <<"s","u","b">> -> sub(instruction, scope)
      [] name = <<"n","e","g">> -> neg(instruction, scope)
      [] name = <<"e","q">> -> eq(instruction, scope)
      [] name = <<"g","t">> -> gt(instruction, scope)
      [] name = <<"l","t">> -> lt(instruction, scope)
      [] name = <<"a","n","d">> -> and_f(instruction, scope)
      [] name = <<"o","r">> -> or_f(instruction, scope)
      [] name = <<"n","o","t">> -> not_f(instruction, scope)
      [] name = <<"l","a","b","e","l">> -> label(instruction, scope)
      [] name = <<"i","f","-","g","o","t","o">> -> if_goto(instruction, scope)
      [] name = <<"g","o","t","o">> -> goto(instruction, scope)
      [] name = <<"f","u","n","c","t","i","o","n">> -> function(instruction, scope)
      [] name = <<"r","e","t","u","r","n">> -> return_f(instruction, scope)
      [] name = <<"c","a","l","l">> -> call(instruction, scope)

alu_actions == {<<"a","d","d">>, <<"s","u","b">>, <<"n","e","g">>, <<"e","q">>, <<"g","t">>, <<"l","t">>, <<"a","n","d">>, <<"o","r">>, <<"n","o","t">>}

\* mutant: the stack pointer is moved up after a push only
inc_stack_if_needed_after_push(instruction) ==
    IF get_instruction_name(instruction) = <<"p","u","s","h">>
    THEN inc_stack
    ELSE <<>>

inc_stack_if_needed(instruction) ==
    IF get_instruction_name(instruction) \in alu_actions \cup {<<"p","u","s","h">>}
    THEN inc_stack
    ELSE <<>>

translate_instruction(instruction, scope) ==
    LET r == translation_map(get_instruction_name(instruction), instruction, scope)
    IN  <<r[1] \o inc_stack_if_needed(instruction), r[2]>>

\* translate_file's loop from line i on: <<asm_code_lines, scope>>
RECURSIVE translate_file_from(_, _, _, _)
translate_file_from(lines, i, asm_code_lines, scope) ==
    IF i > Len(lines) THEN <<asm_code_lines, scope>>
    ELSE LET r == translate_instruction(lines[i], scope)
         IN  translate_file_from(lines, i + 1,
                                 asm_code_lines \o <<comment(lines[i])>> \o r[1], r[2])

translate_file(lines, scope) == translate_file_from(lines, 1, <<>>, scope)[1]

get_scope(file_path) == new_scope(get_file_name(file_path), <<>>)

---------------------------------------------------------------------------
(* The assembler run: module level, lines 519-523.  The three passes walk  *)
(* asm_file one line per step; the text is printed when the last pass ends *)
(* (a_phase = "done"), and an exception ends the run with nothing printed  *)
(* (a_phase = "error").                                                    *)

MaxAsmLines == 4

AsmAlphabet == {<<"(","L",")">>, <<"@","L">>, <<"@","i">>, <<"@","j">>, <<"@","7">>, <<"@","R","1">>, <<"D","=","M">>}

AsmPrograms == UNION {[1..n -> AsmAlphabet] : n \in 0..MaxAsmLines}

JackIdle ==
    /\ jack_class = <<>>
    /\ jk_phase = "idle"
    /\ jk_scope = <<>>
    /\ jk_calls = <<>>
    /\ jk_returned = <<>>
    /\ jk_vm = <<>>
    /\ tk_text = <<>>
    /\ tk_phase = "idle"
    /\ tk_chars = <<>>
    /\ tk_tokens = <<>>

EncIdle == /\ c_fields = <<>>
           /\ c_instruction = <<>>
           /\ c_binary = <<>>

NoCall == [idx |-> 0, ram |-> <<>>]

NoEntry == [idx |-> 0, ram |-> <<>>, height |-> 0, call |-> NoCall, done |-> FALSE]

HackIdle ==
    /\ vm_program = <<>>
    /\ starts = <<>>
    /\ ROM = <<>>
    /\ PC = 0
    /\ reg_A = 0
    /\ reg_D = 0
    /\ RAM = <<>>
    /\ entry = NoEntry

TrIdle ==
    /\ tr_file_path = <<>>
    /\ vm_lines = <<>>
    /\ tr_scope = <<>>
    /\ tr_asm_code_lines = <<>>

InitAsm ==
    /\ asm_file \in AsmPrograms
    /\ a_phase = "labels"
    /\ a_i = 1
    /\ program_counter = 0
    /\ variable_counter = 16
    /\ symbol_table = default_symbol_table
    /\ a_out = <<>>
    /\ EncIdle
    /\ TrIdle
    /\ HackIdle
    /\ JackIdle

\* one iteration of add_user_labels' loop
LabelPassStep ==
    /\ a_phase = "labels"
    /\ a_i <= Len(asm_file)
    /\ LET t == find_and_add_labels(asm_file[a_i], program_counter, symbol_table)
       IN  IF t = Raised
           THEN /\ a_phase' = "error"
                /\ UNCHANGED <<a_i, program_counter, symbol_table>>
           ELSE /\ symbol_table' = t
                /\ program_counter' = inc_p_c(asm_file[a_i], program_counter)
                /\ a_i' = a_i + 1
                /\ UNCHANGED a_phase
    /\ UNCHANGED <<asm_file, variable_counter, a_out, enc_vars, tr_vars, hack_vars>>
    /\ UNCHANGED jack_vars

\* add_user_labels returns; add_user_variables starts
LabelPassEnd ==
    /\ a_phase = "labels"
    /\ a_i > Len(asm_file)
    /\ a_phase' = "variables"
    /\ a_i' = 1
    /\ UNCHANGED <<asm_file, program_counter, variable_counter, symbol_table,
                   a_out, enc_vars, tr_vars, hack_vars>>
    /\ UNCHANGED jack_vars

\* one iteration of add_user_variables' loop
VariablePassStep ==
    /\ a_phase = "variables"
    /\ a_i <= Len(asm_file)
    /\ LET r == find_and_add_variables(asm_file[a_i], variable_counter, symbol_table)
       IN  /\ variable_counter' = r[1]
           /\ symbol_table' = r[2]
    /\ a_i' = a_i + 1
    /\ UNCHANGED <<asm_file, a_phase, program_counter, a_out, enc_vars, tr_vars, hack_vars>>
    /\ UNCHANGED jack_vars

\* add_user_variables returns; assemble_lines starts
VariablePassEnd ==
    /\ a_phase = "variables"
    /\ a_i > Len(asm_file)
    /\ a_phase' = "emit"
    /\ a_i' = 1
    /\ UNCHANGED <<asm_file, program_counter, variable_counter, symbol_table,
                   a_out, enc_vars, tr_vars, hack_vars>>
    /\ UNCHANGED jack_vars

\* one element of assemble_lines' list
EmitStep ==
    /\ a_phase = "emit"
    /\ a_i <= Len(asm_file)
    /\ LET text == assemble_line(asm_file[a_i], symbol_table)
       IN  IF text = ValueError
           THEN /\ a_phase' = "error"
                /\ UNCHANGED <<a_i, a_out>>
           ELSE /\ a_out' = a_out \o text
                /\ a_i' = a_i + 1
                /\ UNCHANGED a_phase
    /\ UNCHANGED <<asm_file, program_counter, variable_counter, symbol_table,
                   enc_vars, tr_vars, hack_vars>>
    /\ UNCHANGED jack_vars

\* print(assemble_lines(...), end='')
EmitEnd ==
    /\ a_phase = "emit"
    /\ a_i > Len(asm_file)
    /\ a_phase' = "done"
    /\ UNCHANGED <<asm_file, a_i, program_counter, variable_counter, symbol_table,
                   a_out, enc_vars, tr_vars, hack_vars>>
    /\ UNCHANGED jack_vars

NextAsm ==
    \/ LabelPassStep
    \/ LabelPassEnd
    \/ VariablePassStep
    \/ VariablePassEnd
    \/ EmitStep
    \/ EmitEnd

SpecAsm == InitAsm /\ [][NextAsm]_vars

---------------------------------------------------------------------------
(* One C-instruction through assemble_c_instruction (lines 480-500).       *)

Dests == LegalDests

Comps == {<<"0">>, <<"1">>, <<"-","1">>, <<"D">>, <<"A">>, <<"M">>, <<"!","D">>, <<"!","A">>, <<"!","M">>, <<"-","D">>, <<"-","A">>,
          <<"-","M">>, <<"D","+","1">>, <<"A","+","1">>, <<"M","+","1">>, <<"D","-","1">>, <<"A","-","1">>, <<"M","-","1">>, <<"D","+","A">>, <<"D","+","M">>,
          <<"D","-","A">>, <<"D","-","M">>, <<"A","-","D">>, <<"M","-","D">>, <<"D","&","A">>, <<"D","&","M">>, <<"D","|","A">>, <<"D","|","M">>}

Jumps == LegalJumps \cup {<<>>}

\* the text `dest=comp;jump`, "=" and ";" left out with an empty dest or jump
c_text(f) ==
    (IF f.dest = <<>> THEN <<>> ELSE f.dest \o <<"=">>)
        \o f.comp
        \o (IF f.jump = <<>> THEN <<>> ELSE <<";">> \o f.jump)

AsmIdle ==
    /\ asm_file = <<>>
    /\ a_phase = "idle"
    /\ a_i = 1
    /\ program_counter = 0
    /\ variable_counter = 16
    /\ symbol_table = default_symbol_table
    /\ a_out = <<>>

InitEnc ==
    /\ c_fields \in [dest : Dests, comp : Comps, jump : Jumps]
    /\ c_instruction = c_text(c_fields)
    /\ c_binary = <<>>
    /\ AsmIdle
    /\ TrIdle
    /\ HackIdle
    /\ JackIdle

AssembleCInstruction ==
    /\ c_binary = <<>>
    /\ c_binary' = assemble_c_instruction(c_instruction)
    /\ UNCHANGED <<c_fields, c_instruction, asm_vars, tr_vars, hack_vars>>
    /\ UNCHANGED jack_vars

NextEnc == AssembleCInstruction

SpecEnc == InitEnc /\ [][NextEnc]_vars

---------------------------------------------------------------------------
(* One .vm file through translate_file (lines 626-632), one line of the    *)
(* file per step.                                                          *)

MaxVmLines == 3

VmFileNames == {<<"M","a","i","n",".","v","m">>, <<"O","t","h","e","r",".","v","m">>}

VmAlphabet == {<<"f","u","n","c","t","i","o","n"," ","M","a","i","n",".","f"," ","0">>, <<"f","u","n","c","t","i","o","n"," ","O","t","h","e","r",".","g"," ","1">>, <<"c","a","l","l"," ","M","a","i","n",".","f"," ","0">>,
               <<"l","a","b","e","l"," ","L">>, <<"l","a","b","e","l"," ","r","e","t","0">>, <<"e","q">>, <<"l","t">>, <<"g","t">>,
               <<"p","u","s","h"," ","s","t","a","t","i","c"," ","0">>, <<"p","o","p"," ","s","t","a","t","i","c"," ","1">>}

\* the function lines[1..k] leave the translator in: <<>> outside every function
RECURSIVE EnclosingFunction(_, _)
EnclosingFunction(lines, k) ==
    IF k = 0 THEN <<>>
    ELSE IF split(lines[k], " ")[1] = <<"f","u","n","c","t","i","o","n">> THEN split(lines[k], " ")[2]
    ELSE EnclosingFunction(lines, k - 1)

\* a VM program declares a function once and a label once per function
WellFormedVm(lines) ==
    \A i, j \in 1..Len(lines) :
        (i < j /\ lines[i] = lines[j]) =>
            /\ split(lines[i], " ")[1] # <<"f","u","n","c","t","i","o","n">>
            /\ split(lines[i], " ")[1] = <<"l","a","b","e","l">> =>
                  EnclosingFunction(lines, i) # EnclosingFunction(lines, j)

InitTr ==
    /\ tr_file_path \in VmFileNames
    /\ vm_lines = <<>>
    /\ tr_scope = get_scope(tr_file_path)
    /\ tr_asm_code_lines = <<>>
    /\ AsmIdle
    /\ EncIdle
    /\ HackIdle
    /\ JackIdle

\* one iteration of translate_file's loop
TranslateLine ==
    \E line \in VmAlphabet :
        /\ Len(vm_lines) < MaxVmLines
        /\ WellFormedVm(Append(vm_lines, line))
        /\ LET r == translate_instruction(line, tr_scope)
           IN  /\ tr_asm_code_lines' = tr_asm_code_lines \o <<comment(line)>> \o r[1]
               /\ tr_scope' = r[2]
        /\ vm_lines' = Append(vm_lines, line)
        /\ UNCHANGED <<tr_file_path, asm_vars, enc_vars, hack_vars, jack_vars>>

NextTr == TranslateLine

SpecTr == InitTr /\ [][NextTr]_vars

---------------------------------------------------------------------------
(* What the claims about the assembler speak of, stated on the program     *)
(* text itself rather than through the assembler's own functions.          *)

DefinesLabel(line) == Len(line) >= 3 /\ Head(line) = "(" /\ line[Len(line)] = ")"

LabelOf(line) == SubSeq(line, 2, Len(line) - 1)

DefinitionsOf(name) ==
    {i \in 1..Len(asm_file) : DefinesLabel(asm_file[i]) /\ LabelOf(asm_file[i]) = name}

LastDefinitionOf(name) ==
    CHOOSE i \in DefinitionsOf(name) : \A j \in DefinitionsOf(name) : j <= i

\* the number of A- and C-instructions before line i
InstructionsBefore(i) ==
    Cardinality({j \in 1..(i - 1) : ~DefinesLabel(asm_file[j])})

RefersTo(line) == Tail(line)

IsReference(line) == Len(line) >= 2 /\ Head(line) = "@"

IsNumber(name) == \A k \in 1..Len(name) : name[k] \in {"0","1","2","3","4","5","6","7","8","9"}

IsVariable(line) ==
    /\ IsReference(line)
    /\ line \notin PredefinedNames
    /\ DefinitionsOf(RefersTo(line)) = {}
    /\ ~IsNumber(RefersTo(line))

\* the first occurrences of variables among the lines before line i
VariablesBefore(i) ==
    {j \in 1..(i - 1) : /\ IsVariable(asm_file[j])
                         /\ \A h \in 1..(j - 1) : asm_file[h] # asm_file[j]}

FirstOccurrence(line) == CHOOSE i \in 1..Len(asm_file) :
    asm_file[i] = line /\ \A h \in 1..(i - 1) : asm_file[h] # line

\* the 16 characters of the A-instruction loading n
Word(n) == [k \in 1..16 |-> IF (n \div (2 ^ (16 - k))) % 2 = 1 THEN "1" ELSE "0"]

\* the printed lines (the text ends with a line break when it is not empty)
PrintedLines == IF a_out = <<>> THEN <<>>
                ELSE split(SubSeq(a_out, 1, Len(a_out) - 1), "\n")

\* the printed line of the instruction at line i of the program
PrintedLineOf(i) == PrintedLines[InstructionsBefore(i) + 1]

LabelPassOver == a_phase \in {"variables", "emit", "done"}

(* C7: a label defined on two lines makes the label pass raise: the run    *)
(* never gets past the label pass, so nothing is printed and no second     *)
(* definition replaces the first.                                          *)
DuplicateLabelIsAnError ==
    (\E i \in 1..Len(asm_file) :
        DefinesLabel(asm_file[i]) /\ Cardinality(DefinitionsOf(LabelOf(asm_file[i]))) > 1)
    => ~LabelPassOver

(* C8: after the label pass every label maps to the number of A- and       *)
(* C-instructions before its definition (the last one, should the program  *)
(* define it again); the printed text has one line per instruction and     *)
(* none for a label; every @L, before or after (L), prints the word of     *)
(* that number; and no variable address is spent on a label.               *)
LabelsMapToInstructionIndex ==
    /\ LabelPassOver =>
          \A i \in 1..Len(asm_file) : DefinesLabel(asm_file[i]) =>
              /\ (<<"@">> \o LabelOf(asm_file[i])) \in DOMAIN symbol_table
              /\ symbol_table[<<"@">> \o LabelOf(asm_file[i])]
                    = InstructionsBefore(LastDefinitionOf(LabelOf(asm_file[i])))
    /\ a_phase = "done" =>
          /\ Len(PrintedLines) = InstructionsBefore(Len(asm_file) + 1)
          /\ \A i \in 1..Len(asm_file) :
                (IsReference(asm_file[i]) /\ DefinitionsOf(RefersTo(asm_file[i])) # {}) =>
                    PrintedLineOf(i)
                      = Word(InstructionsBefore(LastDefinitionOf(RefersTo(asm_file[i]))))
    /\ a_phase \in {"emit", "done"} =>
          variable_counter = 16 + Cardinality(VariablesBefore(Len(asm_file) + 1))

\* a forward reference @L, then an instruction, then (L): L is 2 or more
LabelWitness ==
    /\ a_phase = "done"
    /\ \E i, j \in 1..Len(asm_file) :
          /\ i < j
          /\ DefinesLabel(asm_file[j])
          /\ asm_file[i] = <<"@">> \o LabelOf(asm_file[j])
          /\ symbol_table[asm_file[i]] >= 2
          /\ j < Len(asm_file)

(* C9: the k-th distinct variable (k from 0, by first occurrence; neither  *)
(* predefined, nor a label of the program, nor a number) gets address      *)
(* 16 + k; numbers resolve to themselves and spend no address; every       *)
(* occurrence of a variable prints the word of its one address.            *)
VariablesAllocatedInOrder ==
    /\ a_phase \in {"emit", "done"} =>
          \A i \in 1..Len(asm_file) :
              /\ IsVariable(asm_file[i]) =>
                    symbol_table[asm_file[i]]
                      = 16 + Cardinality(VariablesBefore(FirstOccurrence(asm_file[i])))
              /\ (IsReference(asm_file[i]) /\ IsNumber(RefersTo(asm_file[i]))) =>
                    symbol_table[asm_file[i]] = digits_value(RefersTo(asm_file[i]))
              /\ asm_file[i] \in PredefinedNames =>
                    symbol_table[asm_file[i]] = default_symbol_table[asm_file[i]]
    /\ a_phase = "done" =>
          \A i \in 1..Len(asm_file) : IsVariable(asm_file[i]) =>
              PrintedLineOf(i)
                = Word(16 + Cardinality(VariablesBefore(FirstOccurrence(asm_file[i]))))

\* a second variable, met after a number and a reference to a label, and met again
VariableWitness ==
    /\ a_phase = "done"
    /\ \E h, i, j \in 1..Len(asm_file) :
          /\ h < i /\ i < j
          /\ IsVariable(asm_file[h])
          /\ IsReference(asm_file[i]) /\ ~IsVariable(asm_file[i])
          /\ IsVariable(asm_file[j]) /\ asm_file[j] # asm_file[h]
          /\ symbol_table[asm_file[j]] = 17

---------------------------------------------------------------------------
(* The Hack encoding of a C-instruction, from the machine's definition.    *)

HackComp(comp) ==
    CASE comp = <<"0">> -> <<"1","0","1","0","1","0">>
      [] comp = <<"1">> -> <<"1","1","1","1","1","1">>
      [] comp = <<"-","1">> -> <<"1","1","1","0","1","0">>
      [] comp = <<"D">> -> <<"0","0","1","1","0","0">>
      [] comp = <<"A">> -> <<"1","1","0","0","0","0">>
      [] comp = <<"!","D">> -> <<"0","0","1","1","0","1">>
      [] comp = <<"!","A">> -> <<"1","1","0","0","0","1">>
      [] comp = <<"-","D">> -> <<"0","0","1","1","1","1">>
      [] comp = <<"-","A">> -> <<"1","1","0","0","1","1">>
      [] comp = <<"D","+","1">> -> <<"0","1","1","1","1","1">>
      [] comp = <<"A","+","1">> -> <<"1","1","0","1","1","1">>
      [] comp = <<"D","-","1">> -> <<"0","0","1","1","1","0">>
      [] comp = <<"A","-","1">> -> <<"1","1","0","0","1","0">>
      [] comp = <<"D","+","A">> -> <<"0","0","0","0","1","0">>
      [] comp = <<"D","-","A">> -> <<"0","1","0","0","1","1">>
      [] comp = <<"A","-","D">> -> <<"0","0","0","1","1","1">>
      [] comp = <<"D","&","A">> -> <<"0","0","0","0","0","0">>
      [] comp = <<"D","|","A">> -> <<"0","1","0","1","0","1">>

HackJump(jump) ==
    CASE jump = <<>> -> <<"0","0","0">>
      [] jump = <<"J","G","T">> -> <<"0","0","1">>
      [] jump = <<"J","E","Q">> -> <<"0","1","0">>
      [] jump = <<"J","G","E">> -> <<"0","1","1">>
      [] jump = <<"J","L","T">> -> <<"1","0","0">>
      [] jump = <<"J","N","E">> -> <<"1","0","1">>
      [] jump = <<"J","L","E">> -> <<"1","1","0">>
      [] jump = <<"J","M","P">> -> <<"1","1","1">>

Has(text, c) == \E k \in DOMAIN text : text[k] = c

Bit(b) == IF b THEN "1" ELSE "0"

MToA(comp) == [k \in DOMAIN comp |-> IF comp[k] = "M" THEN "A" ELSE comp[k]]

(* C10: a C-instruction with legal fields assembles to the 16 characters   *)
(* 111 a cccccc ddd jjj: a is 1 iff comp has an M, cccccc is the Hack code *)
(* of comp with M read as A, ddd tells A, D, M in dest, jjj is the jump's  *)
(* code; D=D+A gives 1110000010010000.                                     *)
CInstructionEncoding ==
    /\ c_binary # <<>> =>
          /\ Len(c_binary) = 16
          /\ c_binary = <<"1","1","1">>
                \o <<Bit(Has(c_fields.comp, "M"))>>
                \o HackComp(MToA(c_fields.comp))
                \o <<Bit(Has(c_fields.dest, "A")), Bit(Has(c_fields.dest, "D")),
                      Bit(Has(c_fields.dest, "M"))>>
                \o HackJump(c_fields.jump)
    /\ (c_binary # <<>> /\ c_instruction = <<"D","=","D","+","A">>) => c_binary = <<"1","1","1","0","0","0","0","0","1","0","0","1","0","0","0","0">>

\* MD=M-1;JNE assembled: all four fields at work
CInstructionWitness ==
    /\ c_instruction = <<"M","D","=","M","-","1",";","J","N","E">>
    /\ c_binary = <<"1","1","1","1","1","1","0","0","1","0","0","1","1","1","0","1">>

---------------------------------------------------------------------------
(* What the claims about the translator's text speak of.                   *)

\* the positions of the comment lines translate_file puts before each instruction
CommentLines == {p \in 1..Len(tr_asm_code_lines) :
                    Len(tr_asm_code_lines[p]) >= 2 /\ SubSeq(tr_asm_code_lines[p], 1, 2) = <<"/","/">>}

\* the assembly emitted for the k-th line of the file
EmittedFor(k) ==
    LET first == CHOOSE p \in CommentLines :
                     Cardinality({q \in CommentLines : q < p}) = k - 1
        later == {q \in CommentLines : q > first}
        last  == IF later = {} THEN Len(tr_asm_code_lines)
                 ELSE (CHOOSE q \in later : \A r \in later : q <= r) - 1
    IN  SubSeq(tr_asm_code_lines, first + 1, last)

EmittedLabels == {p \in 1..Len(tr_asm_code_lines) : DefinesLabel(tr_asm_code_lines[p])}

(* C4: the label definitions (NAME) emitted for one file are pairwise      *)
(* distinct.                                                               *)
EmittedLabelsAreDistinct ==
    \A p, q \in EmittedLabels :
        tr_asm_code_lines[p] = tr_asm_code_lines[q] => p = q

\* the symbols an emitted block loads, SP apart
SymbolsOf(block) ==
    {block[p] : p \in {q \in 1..Len(block) : IsReference(block[q])}} \ {<<"@","S","P">>}

FileStem == SubSeq(tr_file_path, 1, Len(tr_file_path) - 3)

(* C6: every push static i and pop static i of file F.vm addresses the     *)
(* symbol F.i, whatever function encloses it.                              *)
StaticUsesFileStem ==
    \A k \in 1..Len(vm_lines) :
        LET words == split(vm_lines[k], " ")
        IN  (words[1] \in {<<"p","u","s","h">>, <<"p","o","p">>} /\ words[2] = <<"s","t","a","t","i","c">>) =>
                SymbolsOf(EmittedFor(k)) = {<<"@">> \o FileStem \o <<".">> \o words[3]}

---------------------------------------------------------------------------
(* The Hack machine (assempler.py, module docstring lines 22-112) running   *)
(* the assembly that vm_translator.py prints for one .vm file.  Registers  *)
(* and memory cells hold 16-bit words, kept as numbers in 0..2^16-1.       *)

Modulus == 2 ^ 16

Wrap(n) == (n + Modulus) % Modulus

Signed(w) == IF w >= 2 ^ 15 THEN w - Modulus ELSE w

RECURSIVE and_bits(_, _, _)
and_bits(x, y, n) ==
    IF n = 0 THEN 0
    ELSE (x % 2) * (y % 2) + 2 * and_bits(x \div 2, y \div 2, n - 1)

not_bits(x) == Modulus - 1 - x

or_bits(x, y) == not_bits(and_bits(not_bits(x), not_bits(y), 16))

\* the ALU's output for an op-code; y is A, or M when the op-code names M
alu_output(op_code, d, y) ==
    CASE op_code = <<"0">> -> 0
      [] op_code = <<"1">> -> 1
      [] op_code = <<"-","1">> -> Modulus - 1
      [] op_code = <<"D">> -> d
      [] op_code = <<"A">> -> y
      [] op_code = <<"!","D">> -> not_bits(d)
      [] op_code = <<"!","A">> -> not_bits(y)
      [] op_code = <<"-","D">> -> Wrap(0 - d)
      [] op_code = <<"-","A">> -> Wrap(0 - y)
      [] op_code = <<"D","+","1">> -> Wrap(d + 1)
      [] op_code = <<"A","+","1">> -> Wrap(y + 1)
      [] op_code = <<"D","-","1">> -> Wrap(d - 1)
      [] op_code = <<"A","-","1">> -> Wrap(y - 1)
      [] op_code = <<"D","+","A">> -> Wrap(d + y)
      [] op_code = <<"D","-","A">> -> Wrap(d - y)
      [] op_code = <<"A","-","D">> -> Wrap(y - d)
      [] op_code = <<"D","&","A">> -> and_bits(d, y, 16)
      [] op_code = <<"D","|","A">> -> or_bits(d, y)

\* the condition of a jump-code on the ALU's output
jump_taken(jump, out) ==
    CASE jump = <<>> -> FALSE
      [] jump = <<"J","E","Q">> -> Signed(out) = 0
      [] jump = <<"J","L","T">> -> Signed(out) < 0
      [] jump = <<"J","L","E">> -> Signed(out) <= 0
      [] jump = <<"J","G","T">> -> Signed(out) > 0
      [] jump = <<"J","G","E">> -> Signed(out) >= 0
      [] jump = <<"J","N","E">> -> Signed(out) # 0
      [] jump = <<"J","M","P">> -> TRUE

\* the number a line of sixteen binary digits stands for
RECURSIVE binary_value(_)
binary_value(bits) ==
    IF bits = <<>> THEN 0
    ELSE 2 * binary_value(SubSeq(bits, 1, Len(bits) - 1))
           + (IF bits[Len(bits)] = "1" THEN 1 ELSE 0)

\* a memory is the function of the cells written so far; the others hold 0
Read(ram, address) == IF address \in DOMAIN ram THEN ram[address] ELSE 0

Write(ram, address, word) ==
    [k \in (DOMAIN ram) \cup {address} |-> IF k = address THEN word ELSE ram[k]]

\* one instruction as the machine holds it
decode(line, table) ==
    IF is_a_instruction(line)
    THEN [a |-> TRUE, value |-> binary_value(int_to_binary(table[line])),
          dest |-> <<>>, op_code |-> <<>>, jump |-> <<>>]
    ELSE [a |-> FALSE, value |-> 0,
          dest |-> get_dest(line), op_code |-> get_op_code(line),
          jump |-> get_jump(line)]

VmFile == <<"M","a","i","n",".","v","m">>

\* the instructions of an assembly text: its lines that are neither blank,
\* comment nor label
instructions_of(asm_code_lines) ==
    SelectSeq(load_asm_file(asm_code_lines), LAMBDA l : ~is_label(l))

---------------------------------------------------------------------------
(* The files run.  Every one is a file the translator accepts whose jumps  *)
(* go to labels it declares and whose function is entered by a call only.  *)

MaxIndex == 1
MaxArgs == 2
MaxLocals == 1
MaxBranchingLines == 3
MaxStack == 12

StackBase == 256

instruction3(name, segment, i) == name \o <<" ">> \o segment \o <<" ">> \o str(i)

PushSegments ==
    {<<"c","o","n","s","t","a","n","t">>, <<"l","o","c","a","l">>, <<"a","r","g","u","m","e","n","t">>, <<"t","h","i","s">>, <<"t","h","a","t">>, <<"p","o","i","n","t","e","r">>, <<"t","e","m","p">>, <<"s","t","a","t","i","c">>}

PopSegments == PushSegments \ {<<"c","o","n","s","t","a","n","t">>}

BinaryOperations == {<<"a","d","d">>, <<"s","u","b">>, <<"a","n","d">>, <<"o","r">>, <<"e","q">>, <<"g","t">>, <<"l","t">>}

UnaryOperations == {<<"n","e","g">>, <<"n","o","t">>}

\* one instruction alone, every memory and ALU instruction
SingleInstructionPrograms ==
    {<<instruction3(<<"p","u","s","h">>, seg, i)>> : seg \in PushSegments, i \in 0..MaxIndex}
        \cup {<<instruction3(<<"p","o","p">>, seg, i)>> : seg \in PopSegments, i \in 0..MaxIndex}
        \cup {<<op>> : op \in alu_actions}

BranchingAlphabet ==
    {<<"p","u","s","h"," ","c","o","n","s","t","a","n","t"," ","0">>, <<"p","o","p"," ","t","e","m","p"," ","0">>, <<"s","u","b">>, <<"n","o","t">>,
     <<"l","a","b","e","l"," ","L">>, <<"g","o","t","o"," ","L">>, <<"i","f","-","g","o","t","o"," ","L">>}

Count(lines, line) == Cardinality({k \in DOMAIN lines : lines[k] = line})

\* sequences with branching: L is declared once when it is jumped to
BranchingPrograms ==
    {p \in UNION {[1..n -> BranchingAlphabet] : n \in 2..MaxBranchingLines} :
        /\ Count(p, <<"l","a","b","e","l"," ","L">>) <= 1
        /\ Count(p, <<"g","o","t","o"," ","L">>) + Count(p, <<"i","f","-","g","o","t","o"," ","L">>) > 0
              => Count(p, <<"l","a","b","e","l"," ","L">>) = 1}

CalleeBodies ==
    {<<>>,
     <<<<"p","u","s","h"," ","c","o","n","s","t","a","n","t"," ","7">>, <<"p","o","p"," ","p","o","i","n","t","e","r"," ","0">>, <<"p","u","s","h"," ","c","o","n","s","t","a","n","t"," ","9">>, <<"p","o","p"," ","p","o","i","n","t","e","r"," ","1">>>>}

ReturnValues == {0, 13}

\* a call of Main.f with n arguments; Main.f has k locals and returns v
CallPrograms ==
    {<<instruction3(<<"c","a","l","l">>, <<"M","a","i","n",".","f">>, n), <<"l","a","b","e","l"," ","E","N","D">>, <<"g","o","t","o"," ","E","N","D">>,
       instruction3(<<"f","u","n","c","t","i","o","n">>, <<"M","a","i","n",".","f">>, k)>>
        \o b \o <<instruction3(<<"p","u","s","h">>, <<"c","o","n","s","t","a","n","t">>, v), <<"r","e","t","u","r","n">>>> :
        n \in 0..MaxArgs, k \in 0..MaxLocals, b \in CalleeBodies, v \in ReturnValues}

VmPrograms == SingleInstructionPrograms \cup BranchingPrograms \cup CallPrograms

\* the values on top of the stack when the file starts
Operands == {0, 1, 2 ^ 15 - 1, 2 ^ 15, 2 ^ 16 - 1}

\* the stack holds MaxArgs words, then x, then y; the segments lie above it
InitialRAM(x, y) ==
    [a \in (0..4) \cup (StackBase..(StackBase + MaxArgs + 1)) |->
        CASE a = 0 -> StackBase + MaxArgs + 2
          [] a = 1 -> 300
          [] a = 2 -> 310
          [] a = 3 -> 320
          [] a = 4 -> 330
          [] a = StackBase + MaxArgs -> x
          [] a = StackBase + MaxArgs + 1 -> y
          [] OTHER -> a]

\* the VM line whose code begins at an address, 0 when none does (a line
\* with no instruction of its own, a label, begins nowhere)
LineAt(address) ==
    LET ks == {k \in DOMAIN vm_program :
                  starts[k] = address /\ starts[k + 1] > address}
    IN  IF ks = {} THEN 0 ELSE CHOOSE k \in ks : TRUE

NameOf(line) == get_instruction_name(line)

\* the words a VM instruction takes from the stack
Popped(line) ==
    CASE NameOf(line) \in BinaryOperations -> 2
      [] NameOf(line) \in UnaryOperations \cup {<<"p","o","p">>, <<"i","f","-","g","o","t","o">>, <<"r","e","t","u","r","n">>} -> 1
      [] NameOf(line) = <<"c","a","l","l">> -> get_n_var(line)
      [] OTHER -> 0

\* the change of the VM's stack height by an instruction of the stack,
\* memory and branching groups (module docstring, lines 65-90)
Delta(line) ==
    CASE NameOf(line) = <<"p","u","s","h">> -> 1
      [] NameOf(line) \in {<<"p","o","p">>, <<"i","f","-","g","o","t","o">>} -> 0 - 1
      [] NameOf(line) \in BinaryOperations -> 0 - 1
      [] OTHER -> 0

Depth == Read(RAM, 0) - StackBase

\* a VM instruction begins with its operands on the stack, and the stack is
\* let grow to MaxStack words
MayProceed ==
    LineAt(PC) # 0 =>
        /\ Popped(vm_program[LineAt(PC)]) <= Depth
        /\ Depth < MaxStack

\* what is remembered of the VM instruction being run: its line, the memory
\* and the VM's stack height when it began, the line of the last call and
\* the memory when it began, and whether the instruction's last machine
\* instruction has just been executed
EntryAfterStep ==
    LET k == LineAt(PC)
        current ==
            IF k = 0 THEN entry
            ELSE [idx |-> k,
                  ram |-> RAM,
                  height |-> IF entry.idx = 0 THEN entry.height
                             ELSE entry.height + Delta(vm_program[entry.idx]),
                  call |-> IF NameOf(vm_program[k]) = <<"c","a","l","l">>
                           THEN [idx |-> k, ram |-> RAM]
                           ELSE entry.call,
                  done |-> FALSE]
    IN  [current EXCEPT !.done = (current.idx # 0
                                   /\ PC + 1 = starts[current.idx + 1])]

InitHack ==
    /\ vm_program \in VmPrograms
    /\ starts = <<>>
    /\ ROM = <<>>
    /\ PC = 0
    /\ reg_A = 0
    /\ reg_D = 0
    /\ RAM = <<>>
    /\ entry = NoEntry
    /\ tr_file_path = VmFile
    /\ vm_lines = <<>>
    /\ tr_scope = get_scope(VmFile)
    /\ tr_asm_code_lines = <<>>
    /\ AsmIdle
    /\ EncIdle
    /\ JackIdle

\* one iteration of translate_file's loop on the next line of the file; the
\* line's code begins after the instructions printed so far
TranslateVmLine ==
    /\ Len(vm_lines) < Len(vm_program)
    /\ \E line \in {vm_program[Len(vm_lines) + 1]} :
          /\ LET r == translate_instruction(line, tr_scope)
             IN  /\ tr_asm_code_lines' = tr_asm_code_lines \o <<comment(line)>> \o r[1]
                 /\ tr_scope' = r[2]
          /\ vm_lines' = Append(vm_lines, line)
    /\ starts' = Append(starts, Len(instructions_of(tr_asm_code_lines)))
    /\ UNCHANGED <<tr_file_path, vm_program, ROM, PC, reg_A, reg_D, RAM, entry,
                   asm_vars, enc_vars>>
    /\ UNCHANGED jack_vars

\* the assembler is run on the translator's output: load_asm_file
LoadAsmFile ==
    /\ vm_program # <<>>
    /\ Len(vm_lines) = Len(vm_program)
    /\ a_phase = "idle"
    /\ asm_file' = load_asm_file(tr_asm_code_lines)
    /\ a_phase' = "labels"
    /\ UNCHANGED <<a_i, program_counter, variable_counter, symbol_table, a_out,
                   enc_vars, tr_vars, hack_vars>>
    /\ UNCHANGED jack_vars

\* the assembled instructions are loaded into the machine's ROM
LoadROM ==
    /\ vm_program # <<>>
    /\ a_phase = "emit"
    /\ ROM = <<>>
    /\ \E instructions \in {instructions_of(asm_file)} :
          ROM' = [i \in 1..Len(instructions) |-> decode(instructions[i], symbol_table)]
    /\ starts' = Append(starts, Len(instructions_of(asm_file)))
    /\ UNCHANGED <<vm_program, PC, reg_A, reg_D, RAM, entry,
                   asm_vars, enc_vars, tr_vars>>
    /\ UNCHANGED jack_vars

\* the machine is started at address 0 on a memory holding a stack
Reset ==
    /\ ROM # <<>>
    /\ DOMAIN RAM = {}
    /\ \E x \in Operands, y \in Operands : RAM' = InitialRAM(x, y)
    /\ entry' = [NoEntry EXCEPT !.ram = RAM', !.height = MaxArgs + 2]
    /\ UNCHANGED <<vm_program, starts, ROM, PC, reg_A, reg_D,
                   asm_vars, enc_vars, tr_vars>>
    /\ UNCHANGED jack_vars

\* one cycle on an A-instruction: A takes the instruction's value
ExecuteA ==
    /\ DOMAIN RAM # {}
    /\ PC < Len(ROM)
    /\ MayProceed
    /\ ROM[PC + 1].a
    /\ reg_A' = ROM[PC + 1].value
    /\ PC' = PC + 1
    /\ entry' = EntryAfterStep
    /\ UNCHANGED <<vm_program, starts, ROM, reg_D, RAM, asm_vars, enc_vars, tr_vars>>
    /\ UNCHANGED jack_vars

\* one cycle on a C-instruction: the ALU's output is written to the
\* destinations and decides the jump to the address in A
ExecuteC ==
    /\ DOMAIN RAM # {}
    /\ PC < Len(ROM)
    /\ MayProceed
    /\ ~ROM[PC + 1].a
    /\ \E out \in {alu_output(MToA(ROM[PC + 1].op_code), reg_D,
                              IF Has(ROM[PC + 1].op_code, "M") THEN Read(RAM, reg_A)
                              ELSE reg_A)} :
          /\ reg_A' = IF Has(ROM[PC + 1].dest, "A") THEN out ELSE reg_A
          /\ reg_D' = IF Has(ROM[PC + 1].dest, "D") THEN out ELSE reg_D
          /\ RAM' = IF Has(ROM[PC + 1].dest, "M") THEN Write(RAM, reg_A, out) ELSE RAM
          /\ PC' = IF jump_taken(ROM[PC + 1].jump, out) THEN reg_A ELSE PC + 1
    /\ entry' = EntryAfterStep
    /\ UNCHANGED <<vm_program, starts, ROM, asm_vars, enc_vars, tr_vars>>
    /\ UNCHANGED jack_vars

NextHack ==
    \/ TranslateVmLine
    \/ LoadAsmFile
    \/ LabelPassStep
    \/ LabelPassEnd
    \/ VariablePassStep
    \/ VariablePassEnd
    \/ LoadROM
    \/ Reset
    \/ ExecuteA
    \/ ExecuteC

SpecHack == InitHack /\ [][NextHack]_vars

---------------------------------------------------------------------------
(* What the claims about the translated code speak of.                     *)

\* the VM instruction that has just been run to its end
Instruction == vm_program[entry.idx]

Completed(names) == entry.done /\ NameOf(Instruction) \in names

SPBefore == Read(entry.ram, 0)

TopBefore == Read(entry.ram, SPBefore - 1)

SecondBefore == Read(entry.ram, SPBefore - 2)

\* the number at the end of a `call f n`, read off the text
ArgsOf(line) == digits_value(split(line, " ")[3])

IsPlain(program) ==
    \A k \in DOMAIN program :
        NameOf(program[k]) \notin {<<"c","a","l","l">>, <<"f","u","n","c","t","i","o","n">>, <<"r","e","t","u","r","n">>}

StackInstructions ==
    {<<"p","u","s","h">>, <<"p","o","p">>, <<"i","f","-","g","o","t","o">>, <<"g","o","t","o">>} \cup BinaryOperations \cup UnaryOperations

(* C1: a push leaves SP one higher, a pop, an if-goto and a binary          *)
(* operation one lower, a unary operation and a goto where it was, and a   *)
(* label is no instruction at all; so SP stays StackBase plus the height   *)
(* the VM's stack has after the instructions run so far.                   *)
StackPointerFollowsTheVM ==
    /\ Completed(StackInstructions) =>
          /\ Read(RAM, 0) = SPBefore + Delta(Instruction)
          /\ IsPlain(vm_program) =>
                Read(RAM, 0) = StackBase + entry.height + Delta(Instruction)
    /\ \A k \in DOMAIN vm_program :
          (k + 1 <= Len(starts) /\ NameOf(vm_program[k]) = <<"l","a","b","e","l">>)
              => starts[k + 1] = starts[k]

\* an if-goto run after other instructions have moved the stack pointer
StackPointerWitness ==
    /\ Completed({<<"i","f","-","g","o","t","o">>})
    /\ entry.idx = 3
    /\ NameOf(vm_program[1]) = <<"l","a","b","e","l">>
    /\ entry.height = MaxArgs + 1
    /\ Read(RAM, 0) = StackBase + MaxArgs

ReturnLabel == <<"@","M","a","i","n","$","r","e","t","0">>

(* C2: when the return of a function called by `call f n` from SP = s has  *)
(* run, the machine is at the call's return label, SP is s - n + 1,        *)
(* RAM[s - n] is the value that was on top of the callee's stack, and LCL, *)
(* ARG, THIS and THAT are what they were when the call began; n may be 0.  *)
ReturnRestoresTheCaller ==
    (Completed({<<"r","e","t","u","r","n">>}) /\ entry.call.idx # 0) =>
        LET s == Read(entry.call.ram, 0)
            n == ArgsOf(vm_program[entry.call.idx])
        IN  /\ PC = symbol_table[ReturnLabel]
            /\ PC = starts[entry.call.idx + 1]
            /\ Read(RAM, 0) = s - n + 1
            /\ Read(RAM, s - n) = TopBefore
            /\ \A r \in 1..4 : Read(RAM, r) = Read(entry.call.ram, r)

\* a return from a call with no argument: the value takes the place of the
\* return address
ReturnWitness ==
    /\ Completed({<<"r","e","t","u","r","n">>})
    /\ entry.call.idx # 0
    /\ ArgsOf(vm_program[entry.call.idx]) = 0
    /\ TopBefore = 13
    /\ Read(RAM, Read(entry.call.ram, 0)) = 13
    /\ Read(RAM, 3) # Read(entry.ram, 3)

(* C3: when `call f n` begun at SP = s has run, RAM[s..s+4] hold the        *)
(* return address, then the LCL, ARG, THIS and THAT of the caller, ARG is  *)
(* s - n, LCL and SP are s + 5, the machine is at f, and the stack cells   *)
(* below s are what they were.                                             *)
CallBuildsTheFrame ==
    Completed({<<"c","a","l","l">>}) =>
        LET s == SPBefore
            n == ArgsOf(Instruction)
        IN  /\ Read(RAM, s) = symbol_table[ReturnLabel]
            /\ Read(RAM, s) = starts[entry.idx + 1]
            /\ \A r \in 1..4 : Read(RAM, s + r) = Read(entry.ram, r)
            /\ Read(RAM, 2) = s - n
            /\ Read(RAM, 1) = s + 5
            /\ Read(RAM, 0) = s + 5
            /\ PC = symbol_table[<<"@">> \o split(Instruction, " ")[2]]
            /\ LineAt(PC) # 0
            /\ NameOf(vm_program[LineAt(PC)]) = <<"f","u","n","c","t","i","o","n">>
            /\ \A a \in StackBase..(s - 1) : Read(RAM, a) = Read(entry.ram, a)

\* a call with two arguments
CallWitness ==
    /\ Completed({<<"c","a","l","l">>})
    /\ ArgsOf(Instruction) = 2
    /\ Read(RAM, 2) = SPBefore - 2
    /\ Read(RAM, SPBefore + 2) = Read(entry.ram, 2)

(* C5: eq, gt and lt put -1 in the place of x and y when x = y, x > y,     *)
(* x < y as signed 16-bit numbers, and 0 otherwise.                        *)
ComparisonsAreSigned ==
    Completed({<<"e","q">>, <<"g","t">>, <<"l","t">>}) =>
        LET x == Signed(SecondBefore)
            y == Signed(TopBefore)
            holds == CASE NameOf(Instruction) = <<"e","q">> -> x = y
                       [] NameOf(Instruction) = <<"g","t">> -> x > y
                       [] NameOf(Instruction) = <<"l","t">> -> x < y
        IN  /\ Read(RAM, 0) = SPBefore - 1
            /\ Read(RAM, SPBefore - 2) = IF holds THEN Modulus - 1 ELSE 0

---------------------------------------------------------------------------
(* The assembler run on one A-instruction with an integer operand.         *)

MaxExponent == 17

\* the integers around the powers of two, and -1
AIntegers == {2 ^ k - 1 : k \in 0..MaxExponent} \cup {2 ^ k : k \in 0..MaxExponent}
                \cup {0 - 1}

InitAInteger ==
    /\ asm_file \in {<<<<"@">> \o str(n)>> : n \in AIntegers}
    /\ a_phase = "labels"
    /\ a_i = 1
    /\ program_counter = 0
    /\ variable_counter = 16
    /\ symbol_table = default_symbol_table
    /\ a_out = <<>>
    /\ EncIdle
    /\ TrIdle
    /\ HackIdle
    /\ JackIdle

SpecAInteger == InitAInteger /\ [][NextAsm]_vars

\* the integer written after the @ of the only line
OperandOf(line) == IF line[2] = "-" THEN 0 - digits_value(SubSeq(line, 3, Len(line)))
                   ELSE digits_value(Tail(line))

IsIntegerProgram ==
    /\ Len(asm_file) = 1
    /\ Len(asm_file[1]) >= 2
    /\ asm_file[1][1] = "@"
    /\ \/ AllDigits(Tail(asm_file[1]))
       \/ asm_file[1][2] = "-" /\ AllDigits(Tail(Tail(asm_file[1])))

(* C11: for `@X` with X an integer, the line printed is 0 followed by the  *)
(* 15 binary digits of X when X is in 0..32767; for any other X the run    *)
(* ends in an error and prints nothing; no printed A-instruction line      *)
(* starts with 1.                                                          *)
AIntegerInFifteenBits ==
    IsIntegerProgram =>
        LET n == OperandOf(asm_file[1])
        IN  /\ a_phase = "done" =>
                  /\ n \in 0..(2 ^ 15 - 1)
                  /\ a_out = Word(n) \o <<"\n">>
            /\ n \notin 0..(2 ^ 15 - 1) => a_phase # "done" /\ a_out = <<>>
            /\ a_out # <<>> => a_out[1] = "0"


---------------------------------------------------------------------------
(* The Jack compiler (projects/11_compiler/compiler.py).                   *)
(*                                                                         *)
(* A token is the pair <<value, type>> of two texts.  A scope is a         *)
(* function from its keys (texts) to their values.  What an eater returns, *)
(* the pair (vm lines, scope), is the triple <<status, vm lines, scope>>:  *)
(* status "ok" for a list of lines, "None" when the first component is     *)
(* None, and otherwise the name of the exception raised.                   *)
(*                                                                         *)
(* The compiler builds its eaters as closures (delay_scope_application).   *)
(* A closure is the record of the function's name and of the arguments it  *)
(* was built with.                                                         *)
(*                                                                         *)
(* The compiler runs as Python runs it, call by call: jk_calls is the      *)
(* stack of the calls in progress.  A call is the closure called, the      *)
(* place pc it has reached (0 on entry) and its local values.  What a call *)
(* does next, from the place it is at and what the call it made returned,  *)
(* is one of three instructions: call an eater and go on from a place,     *)
(* return, or return what another eater returns on a scope.                *)
(*                                                                         *)
(* dict.copy() is shallow: every copy of a scope holds the same            *)
(* `variables` dict, the one new_scope made, and add_id_to_scope writes    *)
(* into that dict in place.  The model keeps the dict's content in the     *)
(* running scope, and unstack_scope carries the content over to the scope  *)
(* it returns; the content a stacked scope shows is thus the dict's        *)
(* content when the scope was stacked.                                     *)

None == <<"None">>
\* False in a slot that holds a text otherwise
False == <<"False">>

RECURSIVE str_replace(_, _, _)
str_replace(s, old, new) ==
    IF Len(s) < Len(old) THEN s
    ELSE IF SubSeq(s, 1, Len(old)) = old
         THEN new \o str_replace(SubSeq(s, Len(old) + 1, Len(s)), old, new)
    ELSE <<s[1]>> \o str_replace(Tail(s), old, new)

RECURSIVE join(_, _)
join(sep, texts) ==
    IF texts = <<>> THEN <<>>
    ELSE IF Len(texts) = 1 THEN texts[1]
    ELSE texts[1] \o sep \o join(sep, Tail(texts))

LowerCase == <<"a","b","c","d","e","f","g","h","i","j","k","l","m","n","o","p","q","r","s","t","u","v","w","x","y","z">>
UpperCase == <<"A","B","C","D","E","F","G","H","I","J","K","L","M","N","O","P","Q","R","S","T","U","V","W","X","Y","Z">>

upper(s) ==
    [i \in 1..Len(s) |->
        IF \E k \in 1..26 : LowerCase[k] = s[i]
        THEN UpperCase[CHOOSE k \in 1..26 : LowerCase[k] = s[i]]
        ELSE s[i]]

\* ord(c) for the characters from " " to "_" and from "a" to "~"
UpToUnderscore ==
    <<" ", "!", "\"", "#", "$", "%", "&", "'", "(", ")", "*", "+", ",", "-", ".", "/">>
    \o <<"0","1","2","3","4","5","6","7","8","9",":",";","<","=",">","?","@">> \o UpperCase \o <<"[", "\\", "]", "^", "_">>

FromLowerA == LowerCase \o <<"{", "|", "}", "~">>

ord(c) ==
    IF \E k \in 1..Len(UpToUnderscore) : UpToUnderscore[k] = c
    THEN 31 + CHOOSE k \in 1..Len(UpToUnderscore) : UpToUnderscore[k] = c
    ELSE 96 + CHOOSE k \in 1..Len(FromLowerA) : FromLowerA[k] = c

\* sum(lists, [])
RECURSIVE sum(_)
sum(lists) == IF lists = <<>> THEN <<>> ELSE lists[1] \o sum(Tail(lists))

tag_word(word, token_type) == <<word, token_type>>

get_token_value(token) == token[1]

get_token_type(token) == token[2]

returned(vm_code, scope) == <<"ok", vm_code, scope>>

returned_None(scope) == <<"None", <<>>, scope>>

raised(exception, scope) == <<exception, <<>>, scope>>

is_None(result) == result[1] = "None"

is_raised(result) == result[1] \notin {"ok", "None"}

delayed(f, args) == [f |-> f, args |-> args]

\* a function handed to apply_eaters as it is
function_object(f) == [f |-> f, args |-> <<>>]

\* a call of a closure, about to start
called(eater) == [f |-> eater.f, args |-> eater.args, pc |-> 0, locals |-> <<>>]

\* the instructions of a call: eater(scope) and then on from pc with locals,
call_eater(eater, scope, pc, locals) == <<"call", eater, scope, pc, locals>>

\* return result,
return_result(result) == <<"return", result>>

\* return eater(scope)
return_call(eater, scope) == <<"become", eater, scope>>

---------------------------------------------------------------------------
(* Jack compiler: scope *)

jack_new_scope(tokens) ==
    [key \in {<<"c","l","a","s","s">>, <<"f","u","n","c","t","i","o","n">>, <<"f","u","n","c","t","i","o","n","_","t","y","p","e">>, <<"l","o","c","a","l">>, <<"a","r","g","u","m","e","n","t">>,
              <<"s","t","a","t","i","c">>, <<"f","i","e","l","d">>, <<"v","a","r","i","a","b","l","e","s">>, <<"n","_","a","r","g","s">>, <<"l","o","o","p">>, <<"n","_","w","h","i","l","e">>,
              <<"n","_","i","f">>, <<"c","u","r","r","e","n","t","_","i","f">>, <<"c","u","r","r","e","n","t","_","w","h","i","l","e">>, <<"a","r","r","a","y","_","d","e","s","t">>,
              <<"t","o","k","e","n","s">>, <<"s","t","a","c","k">>} |->
        CASE key \in {<<"c","l","a","s","s">>, <<"f","u","n","c","t","i","o","n">>, <<"f","u","n","c","t","i","o","n","_","t","y","p","e">>, <<"l","o","o","p">>} -> <<>>
          [] key \in {<<"l","o","c","a","l">>, <<"a","r","g","u","m","e","n","t">>, <<"s","t","a","t","i","c">>, <<"f","i","e","l","d">>} -> <<>>
          [] key = <<"v","a","r","i","a","b","l","e","s">> -> <<>>
          [] key = <<"n","_","a","r","g","s">> -> 0
          [] key \in {<<"n","_","w","h","i","l","e">>, <<"n","_","i","f">>, <<"c","u","r","r","e","n","t","_","i","f">>, <<"c","u","r","r","e","n","t","_","w","h","i","l","e">>} -> 0 - 1
          [] key = <<"a","r","r","a","y","_","d","e","s","t">> -> False
          [] key = <<"t","o","k","e","n","s">> -> tokens
          [] key = <<"s","t","a","c","k">> -> None]

set_scope_element(scope, key, value) == (key :> value) @@ scope

inc_n_counter(scope) ==
    LET n == <<"n","_">> \o scope[<<"l","o","o","p">>]
        current == <<"c","u","r","r","e","n","t","_">> \o scope[<<"l","o","o","p">>]
    IN  IF n \notin DOMAIN scope THEN raised("KeyError", scope)
        ELSE returned(<< <<>> >>,
                 set_scope_element(set_scope_element(scope, n, scope[n] + 1),
                                   current, scope[n] + 1))

inc_scope_element(scope, key) ==
    returned(<< <<>> >>, set_scope_element(scope, key, scope[key] + 1))

clean_scope_tokens(scope) == [k \in DOMAIN scope \ {<<"t","o","k","e","n","s">>} |-> scope[k]]

stack_scope(scope) == set_scope_element(scope, <<"s","t","a","c","k">>, clean_scope_tokens(scope))

\* unstack_scope without the update of the if/while counters
unstack_scope_counters_reset(scope) ==
    set_scope_element(
        set_scope_element(scope[<<"s","t","a","c","k">>], <<"v","a","r","i","a","b","l","e","s">>, scope[<<"v","a","r","i","a","b","l","e","s">>]),
        <<"t","o","k","e","n","s">>, scope[<<"t","o","k","e","n","s">>])

unstack_scope(scope) ==
    LET stacked == set_scope_element(
                       set_scope_element(scope[<<"s","t","a","c","k">>], <<"v","a","r","i","a","b","l","e","s">>, scope[<<"v","a","r","i","a","b","l","e","s">>]),
                       <<"t","o","k","e","n","s">>, scope[<<"t","o","k","e","n","s">>])
    IN  IF stacked[<<"f","u","n","c","t","i","o","n","_","t","y","p","e">>] # <<>>
        THEN set_scope_element(
                 set_scope_element(stacked, <<"n","_","w","h","i","l","e">>, scope[<<"n","_","w","h","i","l","e">>]),
                 <<"n","_","i","f">>, scope[<<"n","_","i","f">>])
        ELSE stacked

pop_token(scope) ==
    set_scope_element(scope, <<"t","o","k","e","n","s">>,
        IF scope[<<"t","o","k","e","n","s">>] = <<>> THEN <<>> ELSE Tail(scope[<<"t","o","k","e","n","s">>]))

\* the decorator, on the lines the function it decorates returned
no_scope_update(vm_code, scope) == returned(vm_code, scope)

---------------------------------------------------------------------------
(* Jack compiler: utilities *)

eat_by_value(scope, expected_value, expected_type, optional, scope_key_to_update) ==
    LET parts == split(expected_value, "|")
        values == [i \in 1..Len(parts) |-> str_replace(parts[i], <<"&","O","R">>, <<"|">>)]
    IN  IF scope[<<"t","o","k","e","n","s">>] = <<>> THEN raised("IndexError", scope)
        ELSE IF ~ \E i \in 1..Len(values) :
                    scope[<<"t","o","k","e","n","s">>][1] = tag_word(values[i], expected_type)
             THEN IF optional THEN returned_None(scope) ELSE raised("ValueError", scope)
        ELSE IF scope_key_to_update = None THEN returned(<< <<>> >>, pop_token(scope))
        ELSE returned(<< <<>> >>,
                 set_scope_element(pop_token(scope), scope_key_to_update,
                                   get_token_value(scope[<<"t","o","k","e","n","s">>][1])))

eat_by_type(scope, expected_type, optional, scope_key_to_update) ==
    LET types == split(expected_type, "|")
    IN  IF scope[<<"t","o","k","e","n","s">>] = <<>> THEN raised("IndexError", scope)
        ELSE IF ~ \E i \in 1..Len(types) :
                    types[i] = get_token_type(scope[<<"t","o","k","e","n","s">>][1])
             THEN IF optional THEN returned_None(scope) ELSE raised("ValueError", scope)
        ELSE IF scope_key_to_update = None
             THEN returned(<<scope[<<"t","o","k","e","n","s">>][1]>>, pop_token(scope))
        ELSE returned(<< <<>> >>,
                 set_scope_element(pop_token(scope), scope_key_to_update,
                                   get_token_value(scope[<<"t","o","k","e","n","s">>][1])))

\* apply_eaters: pc is the number of eaters run, locals is eated_tokens,
\* result what the eater just run returned
apply_eaters(scope, eaters, break_on_none, pc, locals, result) ==
    LET eated_tokens == IF pc = 0 THEN <<>>
                        ELSE IF is_None(result) THEN locals
                        ELSE locals \o result[2]
    IN  IF pc = Len(eaters) \/ (pc > 0 /\ is_None(result) /\ break_on_none)
        THEN IF Len(eated_tokens) > 0 THEN return_result(returned(eated_tokens, scope))
             ELSE return_result(returned_None(scope))
        ELSE call_eater(eaters[pc + 1], scope, pc + 1, eated_tokens)

\* eat_until_none: pc is the place in eaters of the eater just run (0 on
\* entry), locals is eated_tokens
eat_until_none(scope, eaters, pc, locals, result) ==
    IF pc > 0 /\ is_None(result) THEN return_result(returned(sum(locals), scope))
    ELSE call_eater(eaters[(pc % Len(eaters)) + 1], scope, (pc % Len(eaters)) + 1,
                    IF pc = 0 THEN <<>> ELSE Append(locals, result[2]))

\* the decorator nested_scope, on the function it decorates (an eater)
nested_scope(f, scope, pc, result) ==
    IF pc = 0 THEN call_eater(f, stack_scope(scope), 1, <<>>)
    ELSE return_result(<<result[1], result[2], unstack_scope(result[3])>>)

\* the decorator catch_none, on the function it decorates (an eater)
catch_none(f, scope, pc, result) ==
    IF pc = 0 THEN call_eater(f, scope, 1, <<>>)
    ELSE IF is_None(result) THEN return_result(returned(<<>>, result[3]))
    ELSE return_result(result)

---------------------------------------------------------------------------
(* Jack compiler: structure *)

\* the classes of the OS and the one of the only .jack file of the folder
existing_classes ==
    <<<<"M","a","t","h">>, <<"S","t","r","i","n","g">>, <<"A","r","r","a","y">>, <<"O","u","t","p","u","t">>, <<"S","c","r","e","e","n">>, <<"K","e","y","b","o","a","r","d">>,
      <<"M","e","m","o","r","y">>, <<"S","y","s">>, <<"M","a","i","n">>>>

symbol(expected_value, optional, scope_key_to_update) ==
    delayed("eat_by_value", <<expected_value, <<"s","y","m","b","o","l">>, optional, scope_key_to_update>>)

keyword(expected_value, optional, scope_key_to_update) ==
    delayed("eat_by_value", <<expected_value, <<"k","e","y","w","o","r","d">>, optional, scope_key_to_update>>)

identifier_to(scope_key_to_update) ==
    delayed("eat_by_type", <<<<"i","d","e","n","t","i","f","i","e","r">>, FALSE, scope_key_to_update>>)

eat_type(scope, classes, optional) ==
    LET t == eat_by_value(scope, <<"i","n","t","|","c","h","a","r","|","b","o","o","l","e","a","n","|","v","o","i","d">>, <<"k","e","y","w","o","r","d">>, TRUE, <<"n","e","w","_","t","y","p","e">>)
    IN  IF ~ is_None(t) THEN t
        ELSE eat_by_value(t[3], join(<<"|">>, classes), <<"i","d","e","n","t","i","f","i","e","r">>, optional,
                          <<"n","e","w","_","t","y","p","e">>)

\* the eaters eat_class applies
eat_class_eaters(classes) ==
    <<keyword(<<"c","l","a","s","s">>, FALSE, None),
      identifier_to(<<"c","l","a","s","s">>),
      symbol(<<"{">>, FALSE, None),
      delayed("eat_until_none", <<delayed("eat_class_var_dec", <<classes>>)>>),
      delayed("eat_until_none", <<delayed("eat_subroutine_dec", <<classes>>)>>),
      symbol(<<"}">>, FALSE, None)>>

eat_class(scope, classes, pc, result) ==
    nested_scope(delayed("apply_eaters", <<eat_class_eaters(classes), TRUE>>),
                 scope, pc, result)

add_id_to_static_or_field(scope) ==
    LET meta_type == scope[<<"s","t","a","t","i","c","/","f","i","e","l","d">>]
    IN  returned(<< <<>> >>,
            [k \in DOMAIN scope |->
                CASE k = meta_type -> Append(scope[meta_type], scope[<<"n","e","w","_","i","d">>])
                  [] k = <<"v","a","r","i","a","b","l","e","s">> ->
                        set_scope_element(scope[<<"v","a","r","i","a","b","l","e","s">>], scope[<<"n","e","w","_","i","d">>],
                                          scope[<<"n","e","w","_","t","y","p","e">>])
                  [] k = <<"n","e","w","_","i","d">> -> <<>>
                  [] OTHER -> scope[k]])

eat_class_var_dec(scope, classes) ==
    return_call(delayed("apply_eaters", <<
        <<keyword(<<"s","t","a","t","i","c","|","f","i","e","l","d">>, TRUE, <<"s","t","a","t","i","c","/","f","i","e","l","d">>),
          delayed("eat_type", <<classes, FALSE>>),
          identifier_to(<<"n","e","w","_","i","d">>),
          function_object("add_id_to_static_or_field"),
          delayed("eat_until_none",
              <<symbol(<<",">>, TRUE, None),
                identifier_to(<<"n","e","w","_","i","d">>),
                function_object("add_id_to_static_or_field")>>),
          symbol(<<";">>, FALSE, None)>>, TRUE>>), scope)

add_id_to_scope(scope, segment) ==
    IF {<<"n","e","w","_","i","d">>, <<"n","e","w","_","t","y","p","e">>} \ DOMAIN scope # {} THEN raised("KeyError", scope)
    ELSE returned(<< <<>> >>,
            [k \in DOMAIN scope |->
                CASE k = segment -> Append(scope[segment], scope[<<"n","e","w","_","i","d">>])
                  [] k = <<"v","a","r","i","a","b","l","e","s">> ->
                        set_scope_element(scope[<<"v","a","r","i","a","b","l","e","s">>], scope[<<"n","e","w","_","i","d">>],
                                          scope[<<"n","e","w","_","t","y","p","e">>])
                  [] k = <<"n","e","w","_","i","d">> -> <<>>
                  [] OTHER -> scope[k]])

\* add_this_to_locals adding nothing
add_this_to_locals_of_function(scope) == returned(<< <<>> >>, scope)

add_this_to_locals(scope) ==
    IF scope[<<"f","u","n","c","t","i","o","n","_","t","y","p","e">>] # <<"m","e","t","h","o","d">> THEN returned(<< <<>> >>, scope)
    ELSE returned(<< <<>> >>,
             add_id_to_scope(set_scope_element(scope, <<"n","e","w","_","i","d">>, <<"t","h","i","s">>),
                             <<"a","r","g","u","m","e","n","t">>)[3])

\* the eaters eat_subroutine_dec applies
eat_subroutine_dec_eaters(classes) ==
    <<keyword(<<"c","o","n","s","t","r","u","c","t","o","r","|","f","u","n","c","t","i","o","n","|","m","e","t","h","o","d">>, TRUE, <<"f","u","n","c","t","i","o","n","_","t","y","p","e">>),
      delayed("eat_type", <<classes, FALSE>>),
      identifier_to(<<"f","u","n","c","t","i","o","n">>),
      function_object("add_this_to_locals"),
      symbol(<<"(">>, FALSE, None),
      delayed("eat_param_list", <<classes>>),
      symbol(<<")">>, FALSE, None),
      delayed("eat_sub_routine_body", <<classes>>)>>

eat_subroutine_dec(scope, classes, pc, result) ==
    nested_scope(delayed("apply_eaters", <<eat_subroutine_dec_eaters(classes), TRUE>>),
                 scope, pc, result)

eat_param_list(scope, classes, pc, result) ==
    catch_none(delayed("apply_eaters", <<
        <<delayed("eat_type", <<classes, TRUE>>),
          identifier_to(<<"n","e","w","_","i","d">>),
          delayed("add_id_to_scope", <<<<"a","r","g","u","m","e","n","t">>>>),
          delayed("eat_until_none",
              <<symbol(<<",">>, TRUE, None),
                delayed("eat_type", <<classes, FALSE>>),
                identifier_to(<<"n","e","w","_","i","d">>),
                delayed("add_id_to_scope", <<<<"a","r","g","u","m","e","n","t">>>>)>>)>>, TRUE>>),
        scope, pc, result)

generate_function_declaration(scope) ==
    LET n_locals == Len(scope[<<"l","o","c","a","l">>])
        function_declaration ==
            <<<<"f","u","n","c","t","i","o","n"," ">> \o scope[<<"c","l","a","s","s">>] \o <<".">> \o scope[<<"f","u","n","c","t","i","o","n">>]
                  \o <<" ">> \o str(n_locals)>>
    IN  no_scope_update(
            IF scope[<<"f","u","n","c","t","i","o","n","_","t","y","p","e">>] = <<"c","o","n","s","t","r","u","c","t","o","r">>
            THEN function_declaration
                     \o <<<<"p","u","s","h"," ","c","o","n","s","t","a","n","t"," ">> \o str(Len(scope[<<"f","i","e","l","d">>])),
                          <<"c","a","l","l"," ","M","e","m","o","r","y",".","a","l","l","o","c"," ","1">>,
                          <<"p","o","p"," ","p","o","i","n","t","e","r"," ","0">>>>
            ELSE IF scope[<<"f","u","n","c","t","i","o","n","_","t","y","p","e">>] = <<"m","e","t","h","o","d">>
                 THEN function_declaration \o <<<<"p","u","s","h"," ","a","r","g","u","m","e","n","t"," ","0">>, <<"p","o","p"," ","p","o","i","n","t","e","r"," ","0">>>>
            ELSE function_declaration,
            scope)

\* the eaters eat_sub_routine_body applies
eat_sub_routine_body_eaters(classes) ==
    <<symbol(<<"{">>, FALSE, None),
      delayed("eat_until_none", <<delayed("eat_var_dec", <<classes>>)>>),
      function_object("generate_function_declaration"),
      delayed("eat_statements", <<classes>>),
      symbol(<<"}">>, FALSE, None)>>

eat_sub_routine_body(scope, classes) ==
    return_call(delayed("apply_eaters", <<eat_sub_routine_body_eaters(classes), TRUE>>),
                scope)

eat_var_dec(scope, classes) ==
    return_call(delayed("apply_eaters", <<
        <<keyword(<<"v","a","r">>, TRUE, None),
          delayed("eat_type", <<classes, FALSE>>),
          identifier_to(<<"n","e","w","_","i","d">>),
          delayed("add_id_to_scope", <<<<"l","o","c","a","l">>>>),
          delayed("eat_until_none",
              <<symbol(<<",">>, TRUE, None),
                identifier_to(<<"n","e","w","_","i","d">>),
                delayed("add_id_to_scope", <<<<"l","o","c","a","l">>>>)>>),
          symbol(<<";">>, FALSE, None)>>, TRUE>>), scope)

---------------------------------------------------------------------------
(* Jack compiler: statements *)

eat_statements(scope, classes) ==
    return_call(delayed("eat_until_none", <<delayed("eat_statement", <<classes>>)>>),
                scope)

eat_statement(scope, classes) ==
    IF scope[<<"t","o","k","e","n","s">>] = <<>> THEN return_result(raised("IndexError", scope))
    ELSE IF scope[<<"t","o","k","e","n","s">>][1] = tag_word(<<"i","f">>, <<"k","e","y","w","o","r","d">>)
         THEN return_call(delayed("eat_if_statement", <<classes>>), scope)
    ELSE IF scope[<<"t","o","k","e","n","s">>][1] = tag_word(<<"w","h","i","l","e">>, <<"k","e","y","w","o","r","d">>)
         THEN return_call(delayed("eat_while_statement", <<classes>>), scope)
    ELSE IF scope[<<"t","o","k","e","n","s">>][1] = tag_word(<<"l","e","t">>, <<"k","e","y","w","o","r","d">>)
         THEN return_call(delayed("eat_let_statement", <<classes>>), scope)
    ELSE IF scope[<<"t","o","k","e","n","s">>][1] = tag_word(<<"d","o">>, <<"k","e","y","w","o","r","d">>)
         THEN return_call(delayed("eat_do_statement", <<>>), scope)
    ELSE IF scope[<<"t","o","k","e","n","s">>][1] = tag_word(<<"r","e","t","u","r","n">>, <<"k","e","y","w","o","r","d">>)
         THEN return_call(function_object("eat_return_statement"), scope)
    ELSE return_result(returned_None(scope))

eat_if_statement(scope, classes, pc, result) ==
    nested_scope(delayed("apply_eaters", <<
        <<keyword(<<"i","f">>, FALSE, <<"l","o","o","p">>),
          function_object("inc_n_counter"),
          symbol(<<"(">>, FALSE, None),
          delayed("eat_expression", <<TRUE>>),
          symbol(<<")">>, FALSE, None),
          function_object("generate_if_goto"),
          function_object("generate_true_label"),
          symbol(<<"{">>, FALSE, None),
          delayed("eat_statements", <<classes>>),
          symbol(<<"}">>, FALSE, None),
          function_object("generate_end_goto"),
          function_object("generate_false_label"),
          keyword(<<"e","l","s","e">>, TRUE, None),
          symbol(<<"{">>, FALSE, None),
          delayed("eat_statements", <<classes>>),
          symbol(<<"}">>, FALSE, None),
          function_object("generate_end_label")>>, TRUE>>), scope, pc, result)

generate_start_label(scope) ==
    no_scope_update(<<<<"l","a","b","e","l"," ","W","H","I","L","E","_","E","X","P">> \o str(scope[<<"c","u","r","r","e","n","t","_","w","h","i","l","e">>])>>, scope)

generate_end_label(scope) ==
    LET name == scope[<<"l","o","o","p">>]
    IN  IF <<"c","u","r","r","e","n","t","_">> \o name \notin DOMAIN scope THEN raised("KeyError", scope)
        ELSE no_scope_update(
                 <<<<"l","a","b","e","l"," ">> \o upper(name) \o <<"_","E","N","D">>
                       \o str(scope[<<"c","u","r","r","e","n","t","_">> \o name])>>, scope)

generate_true_label(scope) ==
    no_scope_update(<<<<"l","a","b","e","l"," ","I","F","_","T","R","U","E">> \o str(scope[<<"c","u","r","r","e","n","t","_","i","f">>])>>, scope)

\* generate_false_label reading the counter, not the statement's own number
generate_false_label_of_counter(scope) ==
    no_scope_update(<<<<"l","a","b","e","l"," ","I","F","_","F","A","L","S","E">> \o str(scope[<<"n","_","i","f">>])>>, scope)

generate_false_label(scope) ==
    no_scope_update(<<<<"l","a","b","e","l"," ","I","F","_","F","A","L","S","E">> \o str(scope[<<"c","u","r","r","e","n","t","_","i","f">>])>>, scope)

\* generate_continue_goto reading the counter, not the statement's own number
generate_continue_goto_of_counter(scope) ==
    no_scope_update(<<<<"g","o","t","o"," ","W","H","I","L","E","_","E","X","P">> \o str(scope[<<"n","_","w","h","i","l","e">>])>>, scope)

generate_continue_goto(scope) ==
    no_scope_update(<<<<"g","o","t","o"," ","W","H","I","L","E","_","E","X","P">> \o str(scope[<<"c","u","r","r","e","n","t","_","w","h","i","l","e">>])>>, scope)

generate_if_goto(scope) ==
    no_scope_update(<<<<"i","f","-","g","o","t","o"," ","I","F","_","T","R","U","E">> \o str(scope[<<"c","u","r","r","e","n","t","_","i","f">>]),
                      <<"g","o","t","o"," ","I","F","_","F","A","L","S","E">> \o str(scope[<<"c","u","r","r","e","n","t","_","i","f">>])>>, scope)

generate_break_goto(scope) ==
    no_scope_update(<<<<"i","f","-","g","o","t","o"," ","W","H","I","L","E","_","E","N","D">> \o str(scope[<<"c","u","r","r","e","n","t","_","w","h","i","l","e">>])>>, scope)

generate_end_goto(scope) ==
    IF scope[<<"t","o","k","e","n","s">>] = <<>> THEN raised("IndexError", scope)
    ELSE IF get_token_value(scope[<<"t","o","k","e","n","s">>][1]) = <<"e","l","s","e">>
         THEN no_scope_update(<<<<"g","o","t","o"," ","I","F","_","E","N","D">> \o str(scope[<<"c","u","r","r","e","n","t","_","i","f">>])>>, scope)
    ELSE no_scope_update(<< <<>> >>, scope)

eat_while_statement(scope, classes, pc, result) ==
    nested_scope(delayed("apply_eaters", <<
        <<keyword(<<"w","h","i","l","e">>, FALSE, <<"l","o","o","p">>),
          function_object("inc_n_counter"),
          function_object("generate_start_label"),
          symbol(<<"(">>, FALSE, None),
          delayed("eat_expression", <<TRUE>>),
          symbol(<<")">>, FALSE, None),
          delayed("insert_vm_code", <<<<"n","o","t">>>>),
          function_object("generate_break_goto"),
          symbol(<<"{">>, FALSE, None),
          delayed("eat_statements", <<classes>>),
          symbol(<<"}">>, FALSE, None),
          function_object("generate_continue_goto"),
          function_object("generate_end_label")>>, TRUE>>), scope, pc, result)

\* the segments holding identifier, in get_segment's order
segments_of(scope, identifier) ==
    SelectSeq(<<<<"l","o","c","a","l">>, <<"a","r","g","u","m","e","n","t">>, <<"f","i","e","l","d">>, <<"s","t","a","t","i","c">>>>,
              LAMBDA s : \E i \in 1..Len(scope[s]) : scope[s][i] = identifier)

jack_get_segment(scope, identifier) == segments_of(scope, identifier)[1]

\* list.index(x), counted from 0
index(list, x) == (CHOOSE i \in 1..Len(list) :
                       list[i] = x /\ \A j \in 1..(i - 1) : list[j] # x) - 1

pop_destination(scope) ==
    IF <<"d","e","s","t","i","n","a","t","i","o","n">> \notin DOMAIN scope THEN raised("KeyError", scope)
    ELSE IF segments_of(scope, scope[<<"d","e","s","t","i","n","a","t","i","o","n">>]) = <<>>
         THEN raised("IndexError", scope)
    ELSE LET segment == jack_get_segment(scope, scope[<<"d","e","s","t","i","n","a","t","i","o","n">>])
             i == index(scope[segment], scope[<<"d","e","s","t","i","n","a","t","i","o","n">>])
         IN  IF scope[<<"a","r","r","a","y","_","d","e","s","t">>] \in {False, <<>>}
             THEN returned(<<str_replace(<<"p","o","p"," ">> \o segment \o <<" ">> \o str(i),
                                         <<"f","i","e","l","d">>, <<"t","h","i","s">>)>>, scope)
             ELSE returned(<<<<"p","o","p"," ","t","e","m","p"," ","0">>, <<"p","o","p"," ","p","o","i","n","t","e","r"," ","1">>, <<"p","u","s","h"," ","t","e","m","p"," ","0">>,
                             <<"p","o","p"," ","t","h","a","t"," ","0">>>>,
                           set_scope_element(scope, <<"a","r","r","a","y","_","d","e","s","t">>, False))

push_identifier(scope, identifier) ==
    IF segments_of(scope, identifier) = <<>> THEN raised("IndexError", scope)
    ELSE LET segment == jack_get_segment(scope, identifier)
             i == index(scope[segment], identifier)
         IN  returned(<<str_replace(<<"p","u","s","h"," ">> \o segment \o <<" ">> \o str(i),
                                    <<"f","i","e","l","d">>, <<"t","h","i","s">>)>>, scope)

point_array(scope, key_to_identifier) ==
    IF key_to_identifier \notin DOMAIN scope THEN raised("KeyError", scope)
    ELSE LET pushed == push_identifier(scope, scope[key_to_identifier])
         IN  IF is_raised(pushed) THEN pushed
             ELSE returned(pushed[2] \o <<<<"a","d","d">>>>, scope)

eat_let_statement(scope, classes) ==
    return_call(delayed("apply_eaters", <<
        <<keyword(<<"l","e","t">>, FALSE, None),
          identifier_to(<<"d","e","s","t","i","n","a","t","i","o","n">>),
          delayed("apply_eaters",
              <<<<symbol(<<"[">>, TRUE, <<"a","r","r","a","y","_","d","e","s","t">>),
                  delayed("eat_expression", <<FALSE>>),
                  symbol(<<"]">>, FALSE, None),
                  delayed("point_array", <<<<"d","e","s","t","i","n","a","t","i","o","n">>>>)>>, TRUE>>),
          symbol(<<"=">>, FALSE, None),
          delayed("eat_expression", <<FALSE>>),
          symbol(<<";">>, FALSE, None),
          function_object("pop_destination")>>, FALSE>>), scope)

insert_vm_code(scope, code) == returned(<<code>>, scope)

eat_do_statement(scope) ==
    return_call(delayed("apply_eaters", <<
        <<keyword(<<"d","o">>, FALSE, None),
          delayed("eat_subroutine_call", <<>>),
          symbol(<<";">>, FALSE, None),
          delayed("insert_vm_code", <<<<"p","o","p"," ","t","e","m","p"," ","0">>>>)>>, TRUE>>), scope)

fill_empty_returns(scope, expression_getter, pc, result) ==
    IF pc = 0 THEN call_eater(expression_getter, scope, 1, <<>>)
    ELSE IF is_None(result)
         THEN return_call(delayed("insert_vm_code", <<<<"p","u","s","h"," ","c","o","n","s","t","a","n","t"," ","0">>>>), result[3])
    ELSE return_result(result)

eat_return_statement(scope, pc, result) ==
    nested_scope(delayed("apply_eaters", <<
        <<keyword(<<"r","e","t","u","r","n">>, FALSE, <<"o","p">>),
          delayed("fill_empty_returns", <<delayed("eat_expression", <<TRUE>>)>>),
          symbol(<<";">>, FALSE, None),
          delayed("insert_vm_code", <<<<"r","e","t","u","r","n">>>>)>>, FALSE>>), scope, pc, result)

---------------------------------------------------------------------------
(* Jack compiler: expressions *)

empty_callback(scope) == returned(<< <<>> >>, scope)

eat_expression_list(scope, callback, pc, result) ==
    catch_none(delayed("apply_eaters", <<
        <<delayed("eat_expression", <<TRUE>>),
          callback,
          delayed("eat_until_none",
              <<symbol(<<",">>, TRUE, None),
                delayed("eat_expression", <<FALSE>>),
                callback>>)>>, TRUE>>), scope, pc, result)

generate_op_instruction(scope) ==
    IF <<"o","p">> \notin DOMAIN scope THEN raised("KeyError", scope)
    ELSE CASE scope[<<"o","p">>] = <<"+">> -> no_scope_update(<<<<"a","d","d">>>>, scope)
           [] scope[<<"o","p">>] = <<"-">> -> no_scope_update(<<<<"s","u","b">>>>, scope)
           [] scope[<<"o","p">>] = <<"*">> -> no_scope_update(<<<<"c","a","l","l"," ","M","a","t","h",".","m","u","l","t","i","p","l","y"," ","2">>>>, scope)
           [] scope[<<"o","p">>] = <<"/">> -> no_scope_update(<<<<"c","a","l","l"," ","M","a","t","h",".","d","i","v","i","d","e"," ","2">>>>, scope)
           [] scope[<<"o","p">>] = <<"&">> -> no_scope_update(<<<<"a","n","d">>>>, scope)
           [] scope[<<"o","p">>] = <<"|">> -> no_scope_update(<<<<"o","r">>>>, scope)
           [] scope[<<"o","p">>] = <<"=">> -> no_scope_update(<<<<"e","q">>>>, scope)
           [] scope[<<"o","p">>] = <<">">> -> no_scope_update(<<<<"g","t">>>>, scope)
           [] scope[<<"o","p">>] = <<"<">> -> no_scope_update(<<<<"l","t">>>>, scope)
           [] OTHER -> raised("KeyError", scope)

generate_unary_op_instruction(scope) ==
    IF <<"o","p">> \notin DOMAIN scope THEN raised("KeyError", scope)
    ELSE CASE scope[<<"o","p">>] = <<"-">> -> no_scope_update(<<<<"n","e","g">>>>, scope)
           [] scope[<<"o","p">>] = <<"~">> -> no_scope_update(<<<<"n","o","t">>>>, scope)
           [] OTHER -> raised("KeyError", scope)

eat_expression(scope, optional, pc, result) ==
    nested_scope(delayed("apply_eaters", <<
        <<delayed("eat_term", <<optional>>),
          delayed("eat_until_none",
              <<delayed("eat_op", <<TRUE, <<"o","p">>>>),
                delayed("eat_term", <<FALSE>>),
                function_object("generate_op_instruction")>>)>>, TRUE>>),
        scope, pc, result)

eat_op(scope, optional, scope_key_to_update) ==
    IF scope_key_to_update = None
    THEN eat_by_value(scope, <<"+","|","-","|","*","|","/","|","&","|","&","O","R","|","=","|",">","|","<">>, <<"s","y","m","b","o","l">>, optional, None)
    ELSE eat_by_value(scope, <<"+","|","-","|","*","|","/","|","&","|","&","O","R","|","=","|",">","|","<">>, <<"s","y","m","b","o","l">>, optional,
                      scope_key_to_update)

is_a_class(scope, identifier) == identifier \notin DOMAIN scope[<<"v","a","r","i","a","b","l","e","s">>]

\* what eat_subroutine_call returns, from what its eaters returned
call_of(identifier, dot, callee, arguments) ==
    LET scope == arguments[3]
        caller == get_token_value(identifier[2][1])
    IN  IF is_None(dot)
        THEN returned(<<<<"p","u","s","h"," ","p","o","i","n","t","e","r"," ","0">>>> \o arguments[2]
                          \o <<<<"c","a","l","l"," ">> \o scope[<<"c","l","a","s","s">>] \o <<".">> \o caller
                                   \o <<" ">> \o str(scope[<<"n","_","a","r","g","s">>] + 1)>>,
                      scope)
        ELSE IF is_a_class(scope, caller)
             THEN returned(arguments[2]
                               \o <<<<"c","a","l","l"," ">> \o caller \o <<".">>
                                        \o get_token_value(callee[2][1])
                                        \o <<" ">> \o str(scope[<<"n","_","a","r","g","s">>])>>,
                           scope)
        ELSE IF is_raised(push_identifier(scope, caller))
             THEN push_identifier(scope, caller)
        ELSE returned(push_identifier(scope, caller)[2] \o arguments[2]
                          \o <<<<"c","a","l","l"," ">> \o scope[<<"v","a","r","i","a","b","l","e","s">>][caller] \o <<".">>
                                   \o get_token_value(callee[2][1])
                                   \o <<" ">> \o str(scope[<<"n","_","a","r","g","s">>] + 1)>>,
                      scope)

\* the function eat_subroutine_call decorates; locals are identifier, dot
\* and callee
subroutine_call(scope, pc, locals, result) ==
    LET identifier == eat_by_type(scope, <<"i","d","e","n","t","i","f","i","e","r">>, FALSE, None)
        dot == eat_by_value(identifier[3], <<".">>, <<"s","y","m","b","o","l">>, TRUE, None)
        callee == eat_by_type(dot[3], <<"i","d","e","n","t","i","f","i","e","r">>, FALSE, None)
        arguments == delayed("apply_eaters",
                         <<<<symbol(<<"(">>, FALSE, None),
                             delayed("eat_expression_list",
                                 <<delayed("inc_scope_element", <<<<"n","_","a","r","g","s">>>>)>>),
                             symbol(<<")">>, FALSE, None)>>, TRUE>>)
    IN  IF pc = 1 THEN return_result(call_of(locals[1], locals[2], locals[3], result))
        ELSE IF is_raised(identifier) THEN return_result(identifier)
        ELSE IF is_raised(dot) THEN return_result(dot)
        ELSE IF is_None(dot)
             THEN call_eater(arguments, dot[3], 1, <<identifier, dot, None>>)
        ELSE IF is_raised(callee) THEN return_result(callee)
        ELSE call_eater(arguments, callee[3], 1, <<identifier, dot, callee>>)

eat_subroutine_call(scope, pc, result) ==
    nested_scope(function_object("subroutine_call"), scope, pc, result)

\* eat_term on an identifier: identifier is what eat_by_type returned
identifier_term(initial_scope, identifier) ==
    LET scope == identifier[3]
    IN  IF scope[<<"t","o","k","e","n","s">>] = <<>> THEN return_result(raised("IndexError", scope))
        ELSE IF scope[<<"t","o","k","e","n","s">>][1] = tag_word(<<"[">>, <<"s","y","m","b","o","l">>)
             THEN return_call(delayed("apply_eaters", <<
                      <<delayed("eat_by_type",
                            <<<<"i","d","e","n","t","i","f","i","e","r">>, TRUE, <<"a","r","r","a","y","_","i","d","e","n","t","i","f","i","e","r">>>>),
                        symbol(<<"[">>, FALSE, None),
                        delayed("eat_expression", <<FALSE>>),
                        delayed("point_array", <<<<"a","r","r","a","y","_","i","d","e","n","t","i","f","i","e","r">>>>),
                        symbol(<<"]">>, FALSE, None),
                        delayed("insert_vm_code", <<<<"p","o","p"," ","p","o","i","n","t","e","r"," ","1">>>>),
                        delayed("insert_vm_code", <<<<"p","u","s","h"," ","t","h","a","t"," ","0">>>>)>>, TRUE>>),
                      initial_scope)
        ELSE IF \/ scope[<<"t","o","k","e","n","s">>][1] = tag_word(<<".">>, <<"s","y","m","b","o","l">>)
                \/ scope[<<"t","o","k","e","n","s">>][1] = tag_word(<<"(">>, <<"s","y","m","b","o","l">>)
             THEN return_call(delayed("eat_subroutine_call", <<>>), initial_scope)
        ELSE return_result(push_identifier(scope, get_token_value(identifier[2][1])))

\* the lines of a string constant
RECURSIVE append_chars(_)
append_chars(string) ==
    IF string = <<>> THEN <<>>
    ELSE <<<<"p","u","s","h"," ","c","o","n","s","t","a","n","t"," ">> \o str(ord(string[1])), <<"c","a","l","l"," ","S","t","r","i","n","g",".","a","p","p","e","n","d","C","h","a","r"," ","2">>>>
             \o append_chars(Tail(string))

\* eat_term from '(' expression ')' on: at 1 the expression has been tried,
\* at 2 the unary term
other_term(scope, optional, pc, result) ==
    IF pc = 0
    THEN call_eater(delayed("apply_eaters", <<
             <<symbol(<<"(">>, TRUE, None),
               delayed("eat_expression", <<FALSE>>),
               symbol(<<")">>, FALSE, None)>>, TRUE>>), scope, 1, <<>>)
    ELSE IF ~ is_None(result) THEN return_result(result)
    ELSE IF pc = 1
         THEN call_eater(delayed("apply_eaters", <<
                  <<symbol(<<"-","|","~">>, TRUE, <<"o","p">>),
                    delayed("eat_term", <<FALSE>>),
                    function_object("generate_unary_op_instruction")>>, TRUE>>),
                  result[3], 2, <<>>)
    ELSE IF optional THEN return_result(returned_None(result[3]))
    ELSE return_result(raised("ValueError", result[3]))

eat_term(scope, optional, pc, result) ==
    LET initial_scope == scope
        integer_constant == eat_by_type(scope, <<"i","n","t","e","g","e","r","C","o","n","s","t","a","n","t">>, TRUE, None)
        string_constant == eat_by_type(integer_constant[3], <<"s","t","r","i","n","g","C","o","n","s","t","a","n","t">>, TRUE, None)
        is_keyword == eat_by_value(string_constant[3], <<"t","r","u","e","|","f","a","l","s","e","|","n","u","l","l","|","t","h","i","s">>,
                                   <<"k","e","y","w","o","r","d">>, TRUE, None)
        identifier == eat_by_type(is_keyword[3], <<"i","d","e","n","t","i","f","i","e","r">>, TRUE, None)
        word == get_token_value(initial_scope[<<"t","o","k","e","n","s">>][1])
    IN  IF pc > 0 THEN other_term(scope, optional, pc, result)
        ELSE IF is_raised(integer_constant) THEN return_result(integer_constant)
        ELSE IF ~ is_None(integer_constant)
             THEN return_result(returned(<<<<"p","u","s","h"," ","c","o","n","s","t","a","n","t"," ">>
                                 \o get_token_value(integer_constant[2][1])>>,
                           integer_constant[3]))
        ELSE IF ~ is_None(string_constant)
             THEN return_result(returned(
                      <<<<"p","u","s","h"," ","c","o","n","s","t","a","n","t"," ">> \o str(Len(word)), <<"c","a","l","l"," ","S","t","r","i","n","g",".","n","e","w"," ","1">>>>
                          \o append_chars(word),
                      string_constant[3]))
        ELSE IF ~ is_None(is_keyword)
             THEN return_result(returned(
                      CASE word = <<"t","r","u","e">> -> <<<<"p","u","s","h"," ","c","o","n","s","t","a","n","t"," ","0">>, <<"n","o","t">>>>
                        [] word = <<"f","a","l","s","e">> -> <<<<"p","u","s","h"," ","c","o","n","s","t","a","n","t"," ","0">>>>
                        [] word = <<"n","u","l","l">> -> <<<<"p","u","s","h"," ","c","o","n","s","t","a","n","t"," ","0">>>>
                        [] word = <<"t","h","i","s">> -> <<<<"p","u","s","h"," ","p","o","i","n","t","e","r"," ","0">>>>,
                      is_keyword[3]))
        ELSE IF ~ is_None(identifier) THEN identifier_term(initial_scope, identifier)
        ELSE other_term(identifier[3], optional, 0, result)

---------------------------------------------------------------------------
(* Jack compiler: running a closure on a scope *)

\* what the call does next: result is what the call it made returned
\* (with pc > 0), scope the scope it goes on with
apply(frame, scope, result) ==
    LET f == frame.f
        args == frame.args
        pc == frame.pc
        locals == frame.locals
    IN  CASE f = "eat_by_value" ->
                return_result(eat_by_value(scope, args[1], args[2], args[3], args[4]))
          [] f = "eat_by_type" ->
                return_result(eat_by_type(scope, args[1], args[2], args[3]))
          [] f = "apply_eaters" -> apply_eaters(scope, args[1], args[2], pc, locals, result)
          [] f = "eat_until_none" -> eat_until_none(scope, args, pc, locals, result)
          [] f = "inc_n_counter" -> return_result(inc_n_counter(scope))
          [] f = "inc_scope_element" -> return_result(inc_scope_element(scope, args[1]))
          [] f = "eat_type" -> return_result(eat_type(scope, args[1], args[2]))
          [] f = "eat_class" -> eat_class(scope, args[1], pc, result)
          [] f = "eat_class_var_dec" -> eat_class_var_dec(scope, args[1])
          [] f = "add_id_to_static_or_field" ->
                return_result(add_id_to_static_or_field(scope))
          [] f = "add_this_to_locals" -> return_result(add_this_to_locals(scope))
          [] f = "eat_subroutine_dec" -> eat_subroutine_dec(scope, args[1], pc, result)
          [] f = "eat_param_list" -> eat_param_list(scope, args[1], pc, result)
          [] f = "generate_function_declaration" ->
                return_result(generate_function_declaration(scope))
          [] f = "eat_sub_routine_body" -> eat_sub_routine_body(scope, args[1])
          [] f = "add_id_to_scope" -> return_result(add_id_to_scope(scope, args[1]))
          [] f = "eat_var_dec" -> eat_var_dec(scope, args[1])
          [] f = "eat_statements" -> eat_statements(scope, args[1])
          [] f = "eat_statement" -> eat_statement(scope, args[1])
          [] f = "eat_if_statement" -> eat_if_statement(scope, args[1], pc, result)
          [] f = "generate_start_label" -> return_result(generate_start_label(scope))
          [] f = "generate_end_label" -> return_result(generate_end_label(scope))
          [] f = "generate_true_label" -> return_result(generate_true_label(scope))
          [] f = "generate_false_label" -> return_result(generate_false_label(scope))
          [] f = "generate_continue_goto" -> return_result(generate_continue_goto(scope))
          [] f = "generate_if_goto" -> return_result(generate_if_goto(scope))
          [] f = "generate_break_goto" -> return_result(generate_break_goto(scope))
          [] f = "generate_end_goto" -> return_result(generate_end_goto(scope))
          [] f = "eat_while_statement" -> eat_while_statement(scope, args[1], pc, result)
          [] f = "pop_destination" -> return_result(pop_destination(scope))
          [] f = "point_array" -> return_result(point_array(scope, args[1]))
          [] f = "eat_let_statement" -> eat_let_statement(scope, args[1])
          [] f = "insert_vm_code" -> return_result(insert_vm_code(scope, args[1]))
          [] f = "eat_do_statement" -> eat_do_statement(scope)
          [] f = "fill_empty_returns" -> fill_empty_returns(scope, args[1], pc, result)
          [] f = "eat_return_statement" -> eat_return_statement(scope, pc, result)
          [] f = "empty_callback" -> return_result(empty_callback(scope))
          [] f = "eat_expression_list" -> eat_expression_list(scope, args[1], pc, result)
          [] f = "generate_op_instruction" -> return_result(generate_op_instruction(scope))
          [] f = "generate_unary_op_instruction" ->
                return_result(generate_unary_op_instruction(scope))
          [] f = "eat_expression" -> eat_expression(scope, args[1], pc, result)
          [] f = "eat_op" -> return_result(eat_op(scope, args[1], args[2]))
          [] f = "subroutine_call" -> subroutine_call(scope, pc, locals, result)
          [] f = "eat_subroutine_call" -> eat_subroutine_call(scope, pc, result)
          [] f = "eat_term" -> eat_term(scope, args[1], pc, result)

remove_empty_instructions(tokens) == SelectSeq(tokens, LAMBDA token : Len(token) > 0)

---------------------------------------------------------------------------
(* Jack compiler: the calls in progress *)

\* what the call that just ended returned to the running call
jk_result ==
    IF jk_returned = <<>> THEN <<>>
    ELSE <<jk_returned[1], jk_returned[2], jk_scope>>

\* what the running call does next
jk_next == apply(jk_calls[Len(jk_calls)], jk_scope, jk_result)

\* the running call calls an eater
JackCall ==
    /\ jk_phase = "compiling"
    /\ jk_calls # <<>>
    /\ jk_next[1] = "call"
    /\ jk_calls' = Append([jk_calls EXCEPT ![Len(jk_calls)] =
                               [@ EXCEPT !.pc = jk_next[4], !.locals = jk_next[5]]],
                          called(jk_next[2]))
    /\ jk_scope' = jk_next[3]
    /\ jk_returned' = <<>>
    /\ UNCHANGED <<jack_class, jk_phase, jk_vm, tok_vars>>
    /\ UNCHANGED <<asm_vars, enc_vars, tr_vars, hack_vars>>

\* the running call returns what an eater returns: the eater runs in its place
JackReturnCall ==
    /\ jk_phase = "compiling"
    /\ jk_calls # <<>>
    /\ jk_next[1] = "become"
    /\ jk_calls' = [jk_calls EXCEPT ![Len(jk_calls)] = called(jk_next[2])]
    /\ jk_scope' = jk_next[3]
    /\ jk_returned' = <<>>
    /\ UNCHANGED <<jack_class, jk_phase, jk_vm, tok_vars>>
    /\ UNCHANGED <<asm_vars, enc_vars, tr_vars, hack_vars>>

\* the running call returns lines or None
JackReturn ==
    /\ jk_phase = "compiling"
    /\ jk_calls # <<>>
    /\ jk_next[1] = "return"
    /\ ~ is_raised(jk_next[2])
    /\ jk_calls' = SubSeq(jk_calls, 1, Len(jk_calls) - 1)
    /\ jk_scope' = jk_next[2][3]
    /\ jk_returned' = <<jk_next[2][1], jk_next[2][2]>>
    /\ UNCHANGED <<jack_class, jk_phase, jk_vm, tok_vars>>
    /\ UNCHANGED <<asm_vars, enc_vars, tr_vars, hack_vars>>

\* the running call raises: no call catches, the compiler stops
JackRaise ==
    /\ jk_phase = "compiling"
    /\ jk_calls # <<>>
    /\ jk_next[1] = "return"
    /\ is_raised(jk_next[2])
    /\ jk_phase' = jk_next[2][1]
    /\ jk_calls' = <<>>
    /\ jk_returned' = <<>>
    /\ UNCHANGED <<jack_class, jk_scope, jk_vm, tok_vars>>
    /\ UNCHANGED <<asm_vars, enc_vars, tr_vars, hack_vars>>

\* process_file, once eat_class has returned
ProcessFileEnd ==
    /\ jk_phase = "compiling"
    /\ jk_calls = <<>>
    /\ jk_phase' = IF jk_returned[1] = "None" THEN "TypeError" ELSE "done"
    /\ jk_vm' = remove_empty_instructions(jk_returned[2])
    /\ UNCHANGED <<jack_class, jk_scope, jk_calls, jk_returned, tok_vars>>
    /\ UNCHANGED <<asm_vars, enc_vars, tr_vars, hack_vars>>

---------------------------------------------------------------------------
(* Jack compiler: the classes compiled *)

(* jack_class describes the class written in the .jack file: a record of    *)
(* the family it is from and of what it is made of.  JackTokens gives the  *)
(* tokens tokenize returns for its text.                                   *)

keyword_token(word) == tag_word(word, <<"k","e","y","w","o","r","d">>)

symbol_token(char) == tag_word(<<char>>, <<"s","y","m","b","o","l">>)

identifier_token(word) == tag_word(word, <<"i","d","e","n","t","i","f","i","e","r">>)

integer_token(n) == tag_word(str(n), <<"i","n","t","e","g","e","r","C","o","n","s","t","a","n","t">>)

\* the tokens of e1, e2, ... with a comma between two of them
RECURSIVE CommaSeparated(_)
CommaSeparated(lists) ==
    IF lists = <<>> THEN <<>>
    ELSE IF Len(lists) = 1 THEN lists[1]
    ELSE lists[1] \o <<symbol_token(",")>> \o CommaSeparated(Tail(lists))

\* class Main { class_var_decs subroutine_decs }
ClassTokens(class_var_decs, subroutine_decs) ==
    <<keyword_token(<<"c","l","a","s","s">>), identifier_token(<<"M","a","i","n">>), symbol_token("{")>>
        \o class_var_decs \o subroutine_decs \o <<symbol_token("}")>>

\* kind void name ( parameters ) { var_decs statements return ; }
SubroutineTokens(kind, name, parameters, var_decs, statements) ==
    <<keyword_token(kind), keyword_token(<<"v","o","i","d">>), identifier_token(name),
      symbol_token("(")>>
        \o parameters
        \o <<symbol_token(")"), symbol_token("{")>>
        \o var_decs \o statements
        \o <<keyword_token(<<"r","e","t","u","r","n">>), symbol_token(";"), symbol_token("}")>>

\* var int name ;   or   var Type name ;
VarDecTokens(type, name) ==
    <<keyword_token(<<"v","a","r">>),
      IF type = <<"i","n","t">> THEN keyword_token(type) ELSE identifier_token(type),
      identifier_token(name), symbol_token(";")>>

\* the file with nothing in it
EmptyFile == [family |-> "empty"]

\* all the sequences of at most n elements of S
RECURSIVE SeqsUpTo(_, _)
SeqsUpTo(S, n) ==
    IF n = 0 THEN {<<>>}
    ELSE SeqsUpTo(S, n - 1)
             \cup {Append(s, x) : s \in {t \in SeqsUpTo(S, n - 1) : Len(t) = n - 1}, x \in S}

\* ProcessFile is defined after the families: JackTokens names them all

---------------------------------------------------------------------------
(* Jack compiler: subroutine calls *)

MaxCallArgs == 2
MaxInnerArgs == 1

\* form: "name" for f(...), "class" for Main.f(...), "variable" for q.f(...)
CallTokens(form, name, arguments) ==
    (CASE form = "name" -> <<>>
       [] form = "class" -> <<identifier_token(<<"M","a","i","n">>), symbol_token(".")>>
       [] form = "variable" -> <<identifier_token(<<"q">>), symbol_token(".")>>)
        \o <<identifier_token(name), symbol_token("(")>>
        \o CommaSeparated(arguments)
        \o <<symbol_token(")")>>

\* an argument is the constant 7 (-1) or a call of g with n times the
\* argument 7, written in the form of the call it is an argument of
CallArgumentTokens(form, n) ==
    IF n < 0 THEN <<integer_token(7)>>
    ELSE CallTokens(form, <<"g">>, [i \in 1..n |-> <<integer_token(7)>>])

\* class Main { function void m() { var Main q; do f(arguments); return; } }
CallClasses ==
    {[family |-> "calls", form |-> form, arguments |-> arguments] :
        form \in {"name", "class", "variable"},
        arguments \in SeqsUpTo((0 - 1)..MaxInnerArgs, MaxCallArgs)}

CallClassTokens(class) ==
    ClassTokens(<<>>,
        SubroutineTokens(<<"f","u","n","c","t","i","o","n">>, <<"m">>, <<>>, VarDecTokens(<<"M","a","i","n">>, <<"q">>),
            <<keyword_token(<<"d","o">>)>>
                \o CallTokens(class.form, <<"f">>,
                       [i \in 1..Len(class.arguments) |->
                           CallArgumentTokens(class.form, class.arguments[i])])
                \o <<symbol_token(";")>>))

---------------------------------------------------------------------------
(* Jack compiler: properties *)

\* the running call is a call of f at the place pc
Running(f, pc) ==
    /\ jk_phase = "compiling"
    /\ jk_calls # <<>>
    /\ jk_calls[Len(jk_calls)].f = f
    /\ jk_calls[Len(jk_calls)].pc = pc

\* the tokens eaten between the scope before and the scope after
Eaten(before, after) ==
    SubSeq(before[<<"t","o","k","e","n","s">>], 1, Len(before[<<"t","o","k","e","n","s">>]) - Len(after[<<"t","o","k","e","n","s">>]))

\* how many brackets are open after the i-th of the tokens
OpenBrackets(tokens, i) ==
    Cardinality({j \in 1..i : tokens[j] \in {symbol_token("("), symbol_token("[")}})
        - Cardinality({j \in 1..i : tokens[j] \in {symbol_token(")"), symbol_token("]")}})

\* the number of expressions of the expression list of the call the tokens
\* end with: tokens are name ( ... ) or X . name ( ... )
ExpressionsOfCall(tokens) ==
    LET open == CHOOSE i \in 1..Len(tokens) :
                    tokens[i] = symbol_token("(") /\ OpenBrackets(tokens, i) = 1
                        /\ \A j \in 1..(i - 1) : tokens[j] # symbol_token("(")
        list == SubSeq(tokens, open, Len(tokens))
    IN  IF Len(list) = 2 THEN 0
        ELSE 1 + Cardinality({i \in 1..Len(list) :
                     list[i] = symbol_token(",") /\ OpenBrackets(list, i) = 1})

\* the last word of a line
LastWord(line) == split(line, " ")[Len(split(line, " "))]

\* C12: when a subroutine call has compiled its expression list, the call
\* instruction it emits carries the number of expressions of that list, plus
\* one for a call on a variable or an unqualified call, whatever the calls
\* it is an argument of.
CallCarriesOwnArgumentCount ==
    Running("subroutine_call", 1) /\ jk_returned # <<>> =>
        LET locals == jk_calls[Len(jk_calls)].locals
            tokens == <<locals[1][2][1]>> \o Eaten(locals[1][3], jk_scope)
            caller == get_token_value(locals[1][2][1])
            on_class == ~ is_None(locals[2]) /\ segments_of(jk_scope, caller) = <<>>
            nargs == ExpressionsOfCall(tokens)
            emitted == jk_next[2]
        IN  /\ emitted[1] = "ok"
            /\ LastWord(emitted[2][Len(emitted[2])])
                   = str(IF on_class THEN nargs ELSE nargs + 1)

\* a call that is the second argument of a call is about to emit its lines
InnerCallAsSecondArgument ==
    /\ Running("subroutine_call", 1) /\ jk_returned # <<>>
    /\ \E i \in 1..(Len(jk_calls) - 1) :
           jk_calls[i].f = "subroutine_call" /\ jk_calls[i].pc = 1
    /\ jk_scope[<<"s","t","a","c","k">>][<<"n","_","a","r","g","s">>] = 1

---------------------------------------------------------------------------
(* Jack compiler: expressions with operators *)

MaxOperators == 1

\* the operands written: x, 1, -x, ~x, (-x)
OperandForms == {"x", "1", "-x", "~x", "(-x)"}

OperandTokens(form) ==
    CASE form = "x" -> <<identifier_token(<<"x">>)>>
      [] form = "1" -> <<integer_token(1)>>
      [] form = "-x" -> <<symbol_token("-"), identifier_token(<<"x">>)>>
      [] form = "~x" -> <<symbol_token("~"), identifier_token(<<"x">>)>>
      [] form = "(-x)" -> <<symbol_token("("), symbol_token("-"),
                            identifier_token(<<"x">>), symbol_token(")")>>

OperatorSymbols == {"+", "-", "*", "/", "&", "|", "=", ">", "<"}

\* class Main { function void m() { var int x; let x = t0 op1 t1 ...; return; } }
OpClasses ==
    {class \in {[family |-> "ops", terms |-> terms, ops |-> ops] :
                    terms \in SeqsUpTo(OperandForms, MaxOperators + 1),
                    ops \in SeqsUpTo(OperatorSymbols, MaxOperators)} :
        Len(class.terms) = Len(class.ops) + 1}

OpClassTokens(class) ==
    ClassTokens(<<>>,
        SubroutineTokens(<<"f","u","n","c","t","i","o","n">>, <<"m">>, <<>>, VarDecTokens(<<"i","n","t">>, <<"x">>),
            <<keyword_token(<<"l","e","t">>), identifier_token(<<"x">>), symbol_token("=")>>
                \o OperandTokens(class.terms[1])
                \o sum([k \in 1..Len(class.ops) |->
                           <<symbol_token(class.ops[k])>>
                               \o OperandTokens(class.terms[k + 1])])
                \o <<symbol_token(";")>>))

\* the code of an operand, x being local 0
OperandCode(form) ==
    CASE form = "x" -> << <<"p","u","s","h"," ","l","o","c","a","l"," ","0">> >>
      [] form = "1" -> << <<"p","u","s","h"," ","c","o","n","s","t","a","n","t"," ","1">> >>
      [] form = "-x" -> << <<"p","u","s","h"," ","l","o","c","a","l"," ","0">>, <<"n","e","g">> >>
      [] form = "~x" -> << <<"p","u","s","h"," ","l","o","c","a","l"," ","0">>, <<"n","o","t">> >>
      [] form = "(-x)" -> << <<"p","u","s","h"," ","l","o","c","a","l"," ","0">>, <<"n","e","g">> >>

\* the instruction an operator stands for
OperatorCode(op) ==
    CASE op = "+" -> <<"a","d","d">>
      [] op = "-" -> <<"s","u","b">>
      [] op = "*" -> <<"c","a","l","l"," ","M","a","t","h",".","m","u","l","t","i","p","l","y"," ","2">>
      [] op = "/" -> <<"c","a","l","l"," ","M","a","t","h",".","d","i","v","i","d","e"," ","2">>
      [] op = "&" -> <<"a","n","d">>
      [] op = "|" -> <<"o","r">>
      [] op = "=" -> <<"e","q">>
      [] op = ">" -> <<"g","t">>
      [] op = "<" -> <<"l","t">>

\* the compiler has stopped on a class of the family
Compiled(family) ==
    /\ jack_class.family = family
    /\ jk_phase \notin {"ready", "compiling"}

\* C13: the class `let x = t0 op1 t1 ...;` compiles, and to the code of t0
\* followed, for each k from left to right, by the code of tk and the
\* instruction of opk, whatever the form of tk (x, 1, -x, ~x, (-x)).
OperandsThenOperator ==
    Compiled("ops") =>
        /\ jk_phase = "done"
        /\ jk_vm = << <<"f","u","n","c","t","i","o","n"," ","M","a","i","n",".","m"," ","1">> >>
                       \o OperandCode(jack_class.terms[1])
                       \o sum([k \in 1..Len(jack_class.ops) |->
                                  Append(OperandCode(jack_class.terms[k + 1]),
                                         OperatorCode(jack_class.ops[k]))])
                       \o << <<"p","o","p"," ","l","o","c","a","l"," ","0">>, <<"p","u","s","h"," ","c","o","n","s","t","a","n","t"," ","0">>, <<"r","e","t","u","r","n">> >>

\* the same for the classes whose second operand is not -x or ~x
OperandsThenOperatorUnlessUnary ==
    Compiled("ops") /\ (Len(jack_class.terms) > 1 => jack_class.terms[2] \notin {"-x", "~x"})
        => OperandsThenOperator

\* the class with 1 + -x has compiled
OnePlusMinusXCompiled ==
    /\ Compiled("ops")
    /\ jack_class.terms = <<"1", "-x">>
    /\ jack_class.ops = <<"+">>

---------------------------------------------------------------------------
(* Jack compiler: the variables of two subroutines *)

(* class Main { [static Array q;]                                          *)
(*     kind void a([Main q]) { [var Main q;] do q.run(); return; }         *)
(*     function void b() { [var String q;] do q.run(); return; } }         *)
(* static is "none" or "Array"; a_declares is "none", "local" or           *)
(* "parameter"; b_declares is "none" or "local".                           *)
ScopeClasses ==
    {[family |-> "scopes", static |-> static, a_kind |-> a_kind,
      a_declares |-> a_declares, b_declares |-> b_declares] :
        static \in {"none", "Array"}, a_kind \in {"function", "method"},
        a_declares \in {"none", "local", "parameter"},
        b_declares \in {"none", "local"}}

\* do q.run();
DoQRunTokens ==
    <<keyword_token(<<"d","o">>), identifier_token(<<"q">>), symbol_token("."),
      identifier_token(<<"r","u","n">>), symbol_token("("), symbol_token(")"),
      symbol_token(";")>>

ScopeClassTokens(class) ==
    ClassTokens(
        IF class.static = "none" THEN <<>>
        ELSE <<keyword_token(<<"s","t","a","t","i","c">>), identifier_token(<<"A","r","r","a","y">>),
               identifier_token(<<"q">>), symbol_token(";")>>,
        SubroutineTokens(IF class.a_kind = "method" THEN <<"m","e","t","h","o","d">> ELSE <<"f","u","n","c","t","i","o","n">>,
            <<"a">>,
            IF class.a_declares = "parameter"
            THEN <<identifier_token(<<"M","a","i","n">>), identifier_token(<<"q">>)>> ELSE <<>>,
            IF class.a_declares = "local" THEN VarDecTokens(<<"M","a","i","n">>, <<"q">>) ELSE <<>>,
            DoQRunTokens)
        \o SubroutineTokens(<<"f","u","n","c","t","i","o","n">>, <<"b">>, <<>>,
            IF class.b_declares = "local" THEN VarDecTokens(<<"S","t","r","i","n","g">>, <<"q">>) ELSE <<>>,
            DoQRunTokens))

\* the names the class declares: its statics and its fields
ClassScopeNames(scope) ==
    {scope[<<"s","t","a","t","i","c">>][i] : i \in 1..Len(scope[<<"s","t","a","t","i","c">>])}
        \cup {scope[<<"f","i","e","l","d">>][i] : i \in 1..Len(scope[<<"f","i","e","l","d">>])}

\* eat_subroutine_dec is called on a subroutine declaration
SubroutineStarts ==
    /\ Running("eat_subroutine_dec", 0)
    /\ jk_scope[<<"t","o","k","e","n","s">>] # <<>>
    /\ jk_scope[<<"t","o","k","e","n","s">>][1] \in {keyword_token(<<"c","o","n","s","t","r","u","c","t","o","r">>),
                                   keyword_token(<<"f","u","n","c","t","i","o","n">>), keyword_token(<<"m","e","t","h","o","d">>)}

\* C14: the compilation of a subroutine starts from the symbol table of the
\* class: no local, no argument, and a type recorded for the statics and the
\* fields of the class only, the type they are declared with (Array).
SubroutineStartsFromClassScope ==
    SubroutineStarts /\ jack_class.family = "scopes" =>
        /\ jk_scope[<<"l","o","c","a","l">>] = <<>>
        /\ jk_scope[<<"a","r","g","u","m","e","n","t">>] = <<>>
        /\ DOMAIN jk_scope[<<"v","a","r","i","a","b","l","e","s">>] = ClassScopeNames(jk_scope)
        /\ \A name \in ClassScopeNames(jk_scope) : jk_scope[<<"v","a","r","i","a","b","l","e","s">>][name] = <<"A","r","r","a","y">>

\* the same for the first subroutine of the class
FirstSubroutineStartsFromClassScope ==
    SubroutineStarts /\ jk_scope[<<"t","o","k","e","n","s">>][3] = identifier_token(<<"a">>)
        => SubroutineStartsFromClassScope

\* the same when the first subroutine is a function that declares nothing
SubroutineStartsAfterNoDeclaration ==
    jack_class.family = "scopes" /\ jack_class.a_declares = "none"
            /\ jack_class.a_kind = "function"
        => SubroutineStartsFromClassScope

\* b starts after a declared q
SecondSubroutineStartsAfterDeclaration ==
    /\ SubroutineStarts
    /\ jack_class.family = "scopes"
    /\ jack_class.a_declares # "none"
    /\ jk_scope[<<"t","o","k","e","n","s">>][3] = identifier_token(<<"b">>)

\* what subroutine name declares q as: <<segment, index, type>>, or <<>>
DeclaredInSubroutine(class, name) ==
    LET declares == IF name = <<"a">> THEN class.a_declares ELSE class.b_declares
        type == IF name = <<"a">> THEN <<"M","a","i","n">> ELSE <<"S","t","r","i","n","g">>
    IN  CASE declares = "local" -> << <<"l","o","c","a","l">>, 0, type >>
          [] declares = "parameter" ->
                << <<"a","r","g","u","m","e","n","t">>, IF class.a_kind = "method" THEN 1 ELSE 0, type >>
          [] OTHER -> <<>>

\* the declaration q resolves to in subroutine name: the subroutine's, or
\* else the class's
ResolvesTo(class, name) ==
    IF DeclaredInSubroutine(class, name) # <<>> THEN DeclaredInSubroutine(class, name)
    ELSE IF class.static # "none" THEN << <<"s","t","a","t","i","c">>, 0, <<"A","r","r","a","y">> >>
    ELSE <<>>

\* C15: the call q.run() compiles to `push q`, `call T.run 1` when the
\* subroutine it is in, or else the class, declares q, T being the type of
\* that declaration, and to `call q.run 0` otherwise, whatever the other
\* subroutine declares.
CallResolvesInOwnScopes ==
    Running("subroutine_call", 1) /\ jk_returned # <<>> /\ jack_class.family = "scopes" =>
        LET declaration == ResolvesTo(jack_class, jk_scope[<<"f","u","n","c","t","i","o","n">>])
            emitted == jk_next[2]
        IN  /\ emitted[1] = "ok"
            /\ remove_empty_instructions(emitted[2]) =
                   IF declaration = <<>> THEN << <<"c","a","l","l"," ","q",".","r","u","n"," ","0">> >>
                   ELSE << <<"p","u","s","h"," ">> \o declaration[1] \o <<" ">> \o str(declaration[2]),
                           <<"c","a","l","l"," ">> \o declaration[3] \o <<".","r","u","n"," ","1">> >>

\* the same for the calls of the first subroutine
CallOfFirstSubroutineResolves ==
    jk_scope # <<>> /\ jk_scope[<<"f","u","n","c","t","i","o","n">>] = <<"a">> => CallResolvesInOwnScopes

\* the call of b is compiled, a having declared q and b not
CallAfterOtherDeclaration ==
    /\ Running("subroutine_call", 1) /\ jk_returned # <<>>
    /\ jack_class.family = "scopes"
    /\ jk_scope[<<"f","u","n","c","t","i","o","n">>] = <<"b">>
    /\ jack_class.a_declares # "none" /\ jack_class.b_declares = "none"

---------------------------------------------------------------------------
(* Jack compiler: if and while statements *)

MaxPieces == 6

(* The statements of a subroutine, written as the word of their pieces:    *)
(* "if" is `if (x) {`, "else" is `} else {`, "while" is `while (x) {` and  *)
(* "end" is `}`.                                                           *)
Pieces == {"if", "else", "while", "end"}

\* the statements still open after the word, innermost last; <<"bad">> when
\* the word is no sequence of statements
RECURSIVE OpenStatements(_)
OpenStatements(word) ==
    IF word = <<>> THEN <<>>
    ELSE LET open == OpenStatements(SubSeq(word, 1, Len(word) - 1))
             piece == word[Len(word)]
             top == IF open = <<>> THEN "none" ELSE open[Len(open)]
             below == SubSeq(open, 1, Len(open) - 1)
         IN  CASE top = "bad" -> <<"bad">>
               [] piece \in {"if", "while"} -> Append(open, piece)
               [] piece = "else" -> IF top = "if" THEN Append(below, "else") ELSE <<"bad">>
               [] piece = "end" -> IF top = "none" THEN <<"bad">> ELSE below

PieceTokens(piece) ==
    CASE piece = "if" -> <<keyword_token(<<"i","f">>), symbol_token("("),
                           identifier_token(<<"x">>), symbol_token(")"), symbol_token("{")>>
      [] piece = "while" -> <<keyword_token(<<"w","h","i","l","e">>), symbol_token("("),
                              identifier_token(<<"x">>), symbol_token(")"), symbol_token("{")>>
      [] piece = "else" -> <<symbol_token("}"), keyword_token(<<"e","l","s","e">>), symbol_token("{")>>
      [] piece = "end" -> <<symbol_token("}")>>

\* class Main { function void a() { var int x; word return; }
\*              function void b() { var int x; word return; } }
BranchingClasses ==
    {[family |-> "branching", statements |-> word] :
        word \in {w \in SeqsUpTo(Pieces, MaxPieces) : OpenStatements(w) = <<>>}}

BranchingClassTokens(class) ==
    LET statements == sum([i \in 1..Len(class.statements) |->
                              PieceTokens(class.statements[i])])
    IN  ClassTokens(<<>>,
            SubroutineTokens(<<"f","u","n","c","t","i","o","n">>, <<"a">>, <<>>, VarDecTokens(<<"i","n","t">>, <<"x">>), statements)
            \o SubroutineTokens(<<"f","u","n","c","t","i","o","n">>, <<"b">>, <<>>, VarDecTokens(<<"i","n","t">>, <<"x">>), statements))

\* line.startswith(prefix), for a prefix of any length
has_prefix(line, prefix) ==
    Len(line) >= Len(prefix) /\ SubSeq(line, 1, Len(prefix)) = prefix

\* the lines of the VM functions of the code, one list of lines per function
FunctionsOf(vm_code) ==
    LET first_lines == {i \in 1..Len(vm_code) : has_prefix(vm_code[i], <<"f","u","n","c","t","i","o","n"," ">>)}
    IN  {SubSeq(vm_code, i,
                IF \E j \in first_lines : j > i
                THEN (CHOOSE j \in first_lines :
                          j > i /\ \A h \in first_lines : h > i => j <= h) - 1
                ELSE Len(vm_code)) : i \in first_lines}

\* the lines of the list that start with the prefix, in order, without it
After(prefix, lines) ==
    LET found == SelectSeq(lines, LAMBDA line : has_prefix(line, prefix))
    IN  [i \in 1..Len(found) |-> SubSeq(found[i], Len(prefix) + 1, Len(found[i]))]

\* how many of the pieces of the word are the piece
CountOf(piece, word) == Cardinality({i \in 1..Len(word) : word[i] = piece})

\* C16: in each VM function of the code compiled, the n-th if statement of
\* the subroutine jumps to IF_TRUE(n-1), the n-th while statement starts at
\* WHILE_EXP(n-1), and no label is defined twice; the first if and the
\* first while of every subroutine use 0.
LabelsNumberedPerSubroutine ==
    Compiled("branching") =>
        /\ jk_phase = "done"
        /\ Cardinality(FunctionsOf(jk_vm)) = 2
        /\ \A lines \in FunctionsOf(jk_vm) :
               /\ After(<<"i","f","-","g","o","t","o"," ","I","F","_","T","R","U","E">>, lines)
                      = [n \in 1..CountOf("if", jack_class.statements) |-> str(n - 1)]
               /\ After(<<"l","a","b","e","l"," ","W","H","I","L","E","_","E","X","P">>, lines)
                      = [n \in 1..CountOf("while", jack_class.statements) |-> str(n - 1)]
               /\ \A i, j \in 1..Len(After(<<"l","a","b","e","l"," ">>, lines)) :
                      After(<<"l","a","b","e","l"," ">>, lines)[i] = After(<<"l","a","b","e","l"," ">>, lines)[j] => i = j

\* a class whose subroutines hold an if in an if, followed by an if, is compiled
NestedThenSiblingCompiled ==
    /\ Compiled("branching")
    /\ jack_class.statements = <<"if", "if", "end", "end", "if", "end">>
    /\ jk_phase = "done"

\* how many braces are open after the i-th token, counted from the s-th
BraceDepth(tokens, s, i) ==
    Cardinality({j \in s..i : tokens[j] = symbol_token("{")})
        - Cardinality({j \in s..i : tokens[j] = symbol_token("}")})

\* the tokens of the class eaten so far
EatenSoFar ==
    SubSeq(BranchingClassTokens(jack_class), 1,
           Len(BranchingClassTokens(jack_class)) - Len(jk_scope[<<"t","o","k","e","n","s">>]))

\* the tokens of the statement the tokens end with, a statement that starts
\* with the keyword and ends with a brace
LastStatement(tokens, word) ==
    LET s == CHOOSE s \in 1..Len(tokens) :
                 /\ tokens[s] = keyword_token(word)
                 /\ BraceDepth(tokens, s, Len(tokens)) = 0
                 /\ \A t \in (s + 1)..Len(tokens) :
                        ~ (tokens[t] = keyword_token(word)
                               /\ BraceDepth(tokens, t, Len(tokens)) = 0)
    IN  SubSeq(tokens, s, Len(tokens))

\* the if statement has an else
HasElse(statement) ==
    \E i \in 1..Len(statement) :
        statement[i] = keyword_token(<<"e","l","s","e">>) /\ BraceDepth(statement, 1, i) = 0

\* how many of the lines are the line
Occurrences(line, lines) == Cardinality({i \in 1..Len(lines) : lines[i] = line})

\* eat_if_statement has compiled an if statement of a class of the family
IfStatementCompiled ==
    /\ Running("eat_if_statement", 1) /\ jk_returned # <<>>
    /\ jack_class.family = "branching"

\* C17: the lines of an if statement numbered k are the code of the
\* condition (push local 0), if-goto IF_TRUEk, goto IF_FALSEk, label
\* IF_TRUEk, then the statements of the branch, and at the end label
\* IF_FALSEk when the statement has no else; with an else, goto IF_ENDk and
\* label IF_FALSEk follow the first branch and label IF_ENDk ends the
\* lines.  Each of the lines is there once, whatever the branches hold, and
\* without an else IF_ENDk is in no line.
IfStatementLines ==
    IfStatementCompiled =>
        LET lines == remove_empty_instructions(jk_returned[2])
            k == str(jk_scope[<<"s","t","a","c","k">>][<<"n","_","i","f">>] + 1)
            last == Len(lines)
        IN  /\ jk_returned[1] = "ok"
            /\ last >= 5
            /\ SubSeq(lines, 1, 4) = << <<"p","u","s","h"," ","l","o","c","a","l"," ","0">>, <<"i","f","-","g","o","t","o"," ","I","F","_","T","R","U","E">> \o k,
                                        <<"g","o","t","o"," ","I","F","_","F","A","L","S","E">> \o k, <<"l","a","b","e","l"," ","I","F","_","T","R","U","E">> \o k >>
            /\ \A line \in { <<"i","f","-","g","o","t","o"," ","I","F","_","T","R","U","E">> \o k, <<"g","o","t","o"," ","I","F","_","F","A","L","S","E">> \o k,
                             <<"l","a","b","e","l"," ","I","F","_","T","R","U","E">> \o k, <<"l","a","b","e","l"," ","I","F","_","F","A","L","S","E">> \o k } :
                   Occurrences(line, lines) = 1
            /\ IF HasElse(LastStatement(EatenSoFar, <<"i","f">>))
               THEN /\ lines[last] = <<"l","a","b","e","l"," ","I","F","_","E","N","D">> \o k
                    /\ Occurrences(<<"l","a","b","e","l"," ","I","F","_","E","N","D">> \o k, lines) = 1
                    /\ Occurrences(<<"g","o","t","o"," ","I","F","_","E","N","D">> \o k, lines) = 1
                    /\ \E p \in 5..(last - 2) :
                           /\ lines[p] = <<"g","o","t","o"," ","I","F","_","E","N","D">> \o k
                           /\ lines[p + 1] = <<"l","a","b","e","l"," ","I","F","_","F","A","L","S","E">> \o k
               ELSE /\ lines[last] = <<"l","a","b","e","l"," ","I","F","_","F","A","L","S","E">> \o k
                    /\ Occurrences(<<"l","a","b","e","l"," ","I","F","_","E","N","D">> \o k, lines) = 0
                    /\ Occurrences(<<"g","o","t","o"," ","I","F","_","E","N","D">> \o k, lines) = 0

\* an if statement with an else is compiled, with an if statement in a branch
IfElseWithNestedIfCompiled ==
    /\ IfStatementCompiled
    /\ HasElse(LastStatement(EatenSoFar, <<"i","f">>))
    /\ Len(After(<<"i","f","-","g","o","t","o"," ","I","F","_","T","R","U","E">>, jk_returned[2])) > 1

\* eat_while_statement has compiled a while statement of a class of the family
WhileStatementCompiled ==
    /\ Running("eat_while_statement", 1) /\ jk_returned # <<>>
    /\ jack_class.family = "branching"

\* C18: the lines of a while statement numbered k are label WHILE_EXPk, the
\* code of the condition (push local 0), not, if-goto WHILE_ENDk, then the
\* statements of the body, and at the end goto WHILE_EXPk and label
\* WHILE_ENDk; each of the four lines with a label is there once, whatever
\* the body holds.
WhileStatementLines ==
    WhileStatementCompiled =>
        LET lines == remove_empty_instructions(jk_returned[2])
            k == str(jk_scope[<<"s","t","a","c","k">>][<<"n","_","w","h","i","l","e">>] + 1)
            last == Len(lines)
        IN  /\ jk_returned[1] = "ok"
            /\ last >= 6
            /\ SubSeq(lines, 1, 4) = << <<"l","a","b","e","l"," ","W","H","I","L","E","_","E","X","P">> \o k, <<"p","u","s","h"," ","l","o","c","a","l"," ","0">>,
                                        <<"n","o","t">>, <<"i","f","-","g","o","t","o"," ","W","H","I","L","E","_","E","N","D">> \o k >>
            /\ SubSeq(lines, last - 1, last) = << <<"g","o","t","o"," ","W","H","I","L","E","_","E","X","P">> \o k,
                                                  <<"l","a","b","e","l"," ","W","H","I","L","E","_","E","N","D">> \o k >>
            /\ \A line \in { <<"l","a","b","e","l"," ","W","H","I","L","E","_","E","X","P">> \o k, <<"i","f","-","g","o","t","o"," ","W","H","I","L","E","_","E","N","D">> \o k,
                             <<"g","o","t","o"," ","W","H","I","L","E","_","E","X","P">> \o k, <<"l","a","b","e","l"," ","W","H","I","L","E","_","E","N","D">> \o k } :
                   Occurrences(line, lines) = 1

\* a while statement is compiled, with a while and an if statement in its body
WhileWithNestedStatementsCompiled ==
    /\ WhileStatementCompiled
    /\ Len(After(<<"l","a","b","e","l"," ","W","H","I","L","E","_","E","X","P">>, jk_returned[2])) > 1
    /\ Len(After(<<"i","f","-","g","o","t","o"," ","I","F","_","T","R","U","E">>, jk_returned[2])) > 0

---------------------------------------------------------------------------
(* Jack compiler: arrays *)

\* the expressions written between the brackets: i, j, 1, i+1, a[j]
IndexForms == {"i", "j", "1", "i+1", "a[j]"}

IndexTokens(form) ==
    CASE form = "i" -> <<identifier_token(<<"i">>)>>
      [] form = "j" -> <<identifier_token(<<"j">>)>>
      [] form = "1" -> <<integer_token(1)>>
      [] form = "i+1" -> <<identifier_token(<<"i">>), symbol_token("+"), integer_token(1)>>
      [] form = "a[j]" -> <<identifier_token(<<"a">>), symbol_token("["),
                            identifier_token(<<"j">>), symbol_token("]")>>

(* class Main { function void m() { var Array a; var int i; var int j;     *)
(*     let destination = value; return; } }                                *)
(* The destination is a[store], or i when store is "none".  The value is   *)
(* a[index] when array is TRUE and index otherwise, followed by + 1 when   *)
(* plus is TRUE.                                                           *)
ArrayClasses ==
    {[family |-> "arrays", store |-> store, array |-> array, index |-> form,
      plus |-> plus] :
        store \in IndexForms \cup {"none"}, array \in BOOLEAN,
        form \in IndexForms, plus \in BOOLEAN}

ArrayClassTokens(class) ==
    ClassTokens(<<>>,
        SubroutineTokens(<<"f","u","n","c","t","i","o","n">>, <<"m">>, <<>>,
            VarDecTokens(<<"A","r","r","a","y">>, <<"a">>) \o VarDecTokens(<<"i","n","t">>, <<"i">>)
                \o VarDecTokens(<<"i","n","t">>, <<"j">>),
            <<keyword_token(<<"l","e","t">>)>>
                \o (IF class.store = "none" THEN <<identifier_token(<<"i">>)>>
                    ELSE <<identifier_token(<<"a">>), symbol_token("[")>>
                             \o IndexTokens(class.store) \o <<symbol_token("]")>>)
                \o <<symbol_token("=")>>
                \o (IF class.array
                    THEN <<identifier_token(<<"a">>), symbol_token("[")>>
                             \o IndexTokens(class.index) \o <<symbol_token("]")>>
                    ELSE IndexTokens(class.index))
                \o (IF class.plus THEN <<symbol_token("+"), integer_token(1)>> ELSE <<>>)
                \o <<symbol_token(";")>>))

\* the address of a[...]: a and the code of the index, in the order asked
\* for, and add
AddressCode(index_code, array_first) ==
    (IF array_first THEN << <<"p","u","s","h"," ","l","o","c","a","l"," ","0">> >> \o index_code
     ELSE index_code \o << <<"p","u","s","h"," ","l","o","c","a","l"," ","0">> >>) \o << <<"a","d","d">> >>

\* the code of an expression written between brackets (a is local 0, i
\* local 1, j local 2)
IndexCode(form, array_first) ==
    CASE form = "i" -> << <<"p","u","s","h"," ","l","o","c","a","l"," ","1">> >>
      [] form = "j" -> << <<"p","u","s","h"," ","l","o","c","a","l"," ","2">> >>
      [] form = "1" -> << <<"p","u","s","h"," ","c","o","n","s","t","a","n","t"," ","1">> >>
      [] form = "i+1" -> << <<"p","u","s","h"," ","l","o","c","a","l"," ","1">>, <<"p","u","s","h"," ","c","o","n","s","t","a","n","t"," ","1">>, <<"a","d","d">> >>
      [] form = "a[j]" -> AddressCode(<< <<"p","u","s","h"," ","l","o","c","a","l"," ","2">> >>, array_first)
                              \o << <<"p","o","p"," ","p","o","i","n","t","e","r"," ","1">>, <<"p","u","s","h"," ","t","h","a","t"," ","0">> >>

\* the code of the class, the address of a[...] being computed from a first
\* or from the index first
ArrayClassCode(class, array_first) ==
    << <<"f","u","n","c","t","i","o","n"," ","M","a","i","n",".","m"," ","3">> >>
        \o (IF class.store = "none" THEN <<>>
            ELSE AddressCode(IndexCode(class.store, array_first), array_first))
        \o (IF class.array
            THEN AddressCode(IndexCode(class.index, array_first), array_first)
                     \o << <<"p","o","p"," ","p","o","i","n","t","e","r"," ","1">>, <<"p","u","s","h"," ","t","h","a","t"," ","0">> >>
            ELSE IndexCode(class.index, array_first))
        \o (IF class.plus THEN << <<"p","u","s","h"," ","c","o","n","s","t","a","n","t"," ","1">>, <<"a","d","d">> >> ELSE <<>>)
        \o (IF class.store = "none" THEN << <<"p","o","p"," ","l","o","c","a","l"," ","1">> >>
            ELSE << <<"p","o","p"," ","t","e","m","p"," ","0">>, <<"p","o","p"," ","p","o","i","n","t","e","r"," ","1">>, <<"p","u","s","h"," ","t","e","m","p"," ","0">>, <<"p","o","p"," ","t","h","a","t"," ","0">> >>)
        \o << <<"p","u","s","h"," ","c","o","n","s","t","a","n","t"," ","0">>, <<"r","e","t","u","r","n">> >>

\* C19: `let a[i] = e;` compiles to push a, the code of i, add, the code of
\* e, pop temp 0, pop pointer 1, push temp 0, pop that 0, and the term a[e]
\* to push a, the code of e, add, pop pointer 1, push that 0.
ArrayPushedBeforeIndex ==
    Compiled("arrays") =>
        /\ jk_phase = "done"
        /\ jk_vm = ArrayClassCode(jack_class, TRUE)

\* the same lines with the code of the index before push a
ArrayPushedAfterIndex ==
    Compiled("arrays") =>
        /\ jk_phase = "done"
        /\ jk_vm = ArrayClassCode(jack_class, FALSE)

\* let a[i+1] = a[j] + 1; is compiled
ArrayStoreOfArrayReadCompiled ==
    /\ Compiled("arrays")
    /\ jack_class.store = "i+1" /\ jack_class.array /\ jack_class.index = "j"
    /\ jack_class.plus

---------------------------------------------------------------------------
(* Jack compiler: the scope on on_exit from a nested construct *)

\* the functions nested_scope decorates
NestedConstructs ==
    {"eat_class", "eat_subroutine_dec", "eat_if_statement", "eat_while_statement",
     "eat_return_statement", "eat_expression", "eat_subroutine_call"}

\* the function nested_scope decorates has returned: jk_scope is the scope
\* it returned, jk_scope["stack"] the scope stacked on entry
NestedConstructReturns ==
    /\ jk_phase = "compiling"
    /\ jk_calls # <<>>
    /\ jk_calls[Len(jk_calls)].f \in NestedConstructs
    /\ jk_calls[Len(jk_calls)].pc = 1
    /\ jk_returned # <<>>

\* the scope on exit has the keys of the scope on entry, and the value on
\* entry of each key of the set
RestoredOnExit(keys) ==
    LET on_entry == jk_scope[<<"s","t","a","c","k">>]
        on_exit == jk_next[2][3]
    IN  /\ DOMAIN on_exit = DOMAIN on_entry \cup {<<"t","o","k","e","n","s">>}
        /\ \A key \in keys \cap DOMAIN on_entry : on_exit[key] = on_entry[key]

\* the scope on exit has the tokens left by the construct, and its counters
\* when the construct is in a subroutine
AdoptedOnExit ==
    LET on_entry == jk_scope[<<"s","t","a","c","k">>]
        on_exit == jk_next[2][3]
    IN  /\ on_exit[<<"t","o","k","e","n","s">>] = jk_scope[<<"t","o","k","e","n","s">>]
        /\ on_entry[<<"f","u","n","c","t","i","o","n","_","t","y","p","e">>] # <<>> =>
               /\ on_exit[<<"n","_","i","f">>] = jk_scope[<<"n","_","i","f">>]
               /\ on_exit[<<"n","_","w","h","i","l","e">>] = jk_scope[<<"n","_","w","h","i","l","e">>]

\* C20: on exit from a nested construct every key of the scope other than
\* tokens, n_if and n_while has the value it had on entry; tokens is the
\* construct's, and so are n_if and n_while in a subroutine.
ScopeRestoredOnExit ==
    NestedConstructReturns =>
        /\ RestoredOnExit(DOMAIN jk_scope \ {<<"t","o","k","e","n","s">>, <<"n","_","i","f">>, <<"n","_","w","h","i","l","e">>})
        /\ AdoptedOnExit

\* the same for the keys other than variables
ScopeRestoredOnExitButVariables ==
    NestedConstructReturns =>
        /\ RestoredOnExit(DOMAIN jk_scope \ {<<"t","o","k","e","n","s">>, <<"n","_","i","f">>, <<"n","_","w","h","i","l","e">>, <<"v","a","r","i","a","b","l","e","s">>})
        /\ AdoptedOnExit

\* a subroutine declaration that declared a local returns
SubroutineWithLocalReturns ==
    /\ NestedConstructReturns
    /\ jk_calls[Len(jk_calls)].f = "eat_subroutine_dec"
    /\ jk_scope[<<"l","o","c","a","l">>] # <<>>

---------------------------------------------------------------------------
(* Jack compiler: a required token is missing *)

\* class Main { function void m() { var int x; let x = 1; return; } }
WholeClassTokens ==
    ClassTokens(<<>>,
        SubroutineTokens(<<"f","u","n","c","t","i","o","n">>, <<"m">>, <<>>, VarDecTokens(<<"i","n","t">>, <<"x">>),
            <<keyword_token(<<"l","e","t">>), identifier_token(<<"x">>), symbol_token("="),
              integer_token(1), symbol_token(";")>>))

\* the class above cut after its first `kept` tokens, or with its token
\* number `dropped` left out (0: none is left out)
BrokenClasses ==
    {[family |-> "broken", kept |-> kept, dropped |-> 0] :
        kept \in 0..Len(WholeClassTokens)}
    \cup {[family |-> "broken", kept |-> Len(WholeClassTokens), dropped |-> dropped] :
        dropped \in 1..Len(WholeClassTokens)}

BrokenClassTokens(class) ==
    IF class.dropped = 0 THEN SubSeq(WholeClassTokens, 1, class.kept)
    ELSE SubSeq(WholeClassTokens, 1, class.dropped - 1)
             \o SubSeq(WholeClassTokens, class.dropped + 1, Len(WholeClassTokens))

\* the compiler has stopped on a class that lacks a token of the grammar
StoppedOnMissingToken ==
    /\ Compiled("broken")
    /\ BrokenClassTokens(jack_class) # WholeClassTokens

\* C23: when a token the grammar requires is missing, at the end of the
\* token list too, the compiler stops with the error of eat_by_value and
\* eat_by_type, the ValueError whose message is `Expected ... found ...`
\* (the expected value or type and the token found), and with no other error.
MissingTokenRaisesValueError ==
    StoppedOnMissingToken => jk_phase = "ValueError"

\* the same when a token is found in place of the missing one: the class is
\* not cut, and the token left out is not one of the two closing braces
MissingTokenBeforeTheEndRaisesValueError ==
    (StoppedOnMissingToken /\ jack_class.dropped \in 1..(Len(WholeClassTokens) - 2))
        => jk_phase = "ValueError"

\* the compiler has stopped on the class without its closing brace
ClassWithoutClosingBraceStopped ==
    /\ StoppedOnMissingToken
    /\ jack_class.dropped = Len(WholeClassTokens)

---------------------------------------------------------------------------
(* Jack compiler: unary operators of unary terms *)

MaxUnary == 2

\* class Main { function void m() { var int x; let x = u1 u2 ... x; return; } }
\* each u is - or ~; with parentheses the term of each operator but the
\* last is written between ( and ): u1 (u2 (... x))
UnaryClasses ==
    {[family |-> "unary", ops |-> ops, parentheses |-> parentheses] :
        ops \in SeqsUpTo({"-", "~"}, MaxUnary) \ {<<>>}, parentheses \in BOOLEAN}

RECURSIVE UnaryTermTokens(_, _)
UnaryTermTokens(ops, parentheses) ==
    IF ops = <<>> THEN <<identifier_token(<<"x">>)>>
    ELSE IF parentheses /\ Len(ops) > 1
    THEN <<symbol_token(ops[1]), symbol_token("(")>>
             \o UnaryTermTokens(Tail(ops), parentheses) \o <<symbol_token(")")>>
    ELSE <<symbol_token(ops[1])>> \o UnaryTermTokens(Tail(ops), parentheses)

UnaryClassTokens(class) ==
    ClassTokens(<<>>,
        SubroutineTokens(<<"f","u","n","c","t","i","o","n">>, <<"m">>, <<>>, VarDecTokens(<<"i","n","t">>, <<"x">>),
            <<keyword_token(<<"l","e","t">>), identifier_token(<<"x">>), symbol_token("=")>>
                \o UnaryTermTokens(class.ops, class.parentheses)
                \o <<symbol_token(";")>>))

\* the instruction a unary operator stands for
UnaryCode(op) == IF op = "-" THEN <<"n","e","g">> ELSE <<"n","o","t">>

\* C24: the term `u t` compiles to the code of t followed by neg when u is -
\* and not when u is ~, also when t is a unary term: `let x = u1 u2 ... x;`
\* compiles to push x followed by the instructions of the operators, the
\* last written first (-~x: push x, not, neg; ~-x: push x, neg, not).
UnaryOperatorAfterItsTerm ==
    Compiled("unary") =>
        /\ jk_phase = "done"
        /\ jk_vm = << <<"f","u","n","c","t","i","o","n"," ","M","a","i","n",".","m"," ","1">>, <<"p","u","s","h"," ","l","o","c","a","l"," ","0">> >>
                       \o [k \in 1..Len(jack_class.ops) |->
                              UnaryCode(jack_class.ops[Len(jack_class.ops) + 1 - k])]
                       \o << <<"p","o","p"," ","l","o","c","a","l"," ","0">>, <<"p","u","s","h"," ","c","o","n","s","t","a","n","t"," ","0">>, <<"r","e","t","u","r","n">> >>

\* the same for the classes with one operator, or with the term of each
\* operator between parentheses
UnaryOperatorAfterItsPlainTerm ==
    (Compiled("unary") /\ (Len(jack_class.ops) = 1 \/ jack_class.parentheses))
        => UnaryOperatorAfterItsTerm

\* the class with -~x has compiled
MinusNotXCompiled ==
    /\ Compiled("unary")
    /\ jack_class.ops = <<"-", "~">>
    /\ ~ jack_class.parentheses

---------------------------------------------------------------------------
(* Jack compiler: the indices of the variables *)

MaxDeclared == 2

\* the name of variable number i of a segment: s1, f1, a1, l1, ...
VariableName(segment, i) ==
    <<CASE segment = "static" -> "s" [] segment = "field" -> "f"
        [] segment = "argument" -> "a" [] segment = "local" -> "l">> \o str(i)

(* class Main { static int s1; field int f1; static int s2; field int f2;  *)
(*     kind void m(int a1, int a2) { var int l1; var int l2;               *)
(*         let v = v; return; } }                                          *)
(* with class_vars statics and as many fields, declared in turn, and       *)
(* `variable` the segment and the number of v, or <<>> with no statement.  *)
SegmentClasses ==
    {class \in [family : {"segments"}, class_vars : 0..MaxDeclared,
                kind : {<<"f","u","n","c","t","i","o","n">>, <<"m","e","t","h","o","d">>, <<"c","o","n","s","t","r","u","c","t","o","r">>},
                parameters : 0..MaxDeclared, locals : 0..MaxDeclared,
                variable : {<<>>} \cup ({"static", "field", "argument", "local"}
                                           \X (1..MaxDeclared))] :
        class.variable # <<>> =>
            class.variable[2] <=
                CASE class.variable[1] \in {"static", "field"} -> class.class_vars
                  [] class.variable[1] = "argument" -> class.parameters
                  [] class.variable[1] = "local" -> class.locals}

SegmentClassTokens(class) ==
    ClassTokens(
        sum([i \in 1..class.class_vars |->
                <<keyword_token(<<"s","t","a","t","i","c">>), keyword_token(<<"i","n","t">>),
                  identifier_token(VariableName("static", i)), symbol_token(";"),
                  keyword_token(<<"f","i","e","l","d">>), keyword_token(<<"i","n","t">>),
                  identifier_token(VariableName("field", i)), symbol_token(";")>>]),
        SubroutineTokens(class.kind, <<"m">>,
            CommaSeparated([i \in 1..class.parameters |->
                <<keyword_token(<<"i","n","t">>), identifier_token(VariableName("argument", i))>>]),
            sum([i \in 1..class.locals |-> VarDecTokens(<<"i","n","t">>, VariableName("local", i))]),
            IF class.variable = <<>> THEN <<>>
            ELSE <<keyword_token(<<"l","e","t">>),
                   identifier_token(VariableName(class.variable[1], class.variable[2])),
                   symbol_token("="),
                   identifier_token(VariableName(class.variable[1], class.variable[2])),
                   symbol_token(";")>>))

\* the segment and the index variable number i of a segment is to be pushed
\* and popped with, in a subroutine of the kind
SegmentAndIndex(segment, i, kind) ==
    (CASE segment = "static" -> <<"s","t","a","t","i","c">> [] segment = "field" -> <<"t","h","i","s">>
       [] segment = "argument" -> <<"a","r","g","u","m","e","n","t">> [] segment = "local" -> <<"l","o","c","a","l">>)
        \o <<" ">>
        \o str(IF segment = "argument" /\ kind = <<"m","e","t","h","o","d">> THEN i ELSE i - 1)

\* C25: variable number i of a segment is pushed and popped with index i-1,
\* a field in `this`; the parameters of a method start at argument 1, those
\* of a function or a constructor at argument 0; N in `function Main.m N` is
\* the number of locals declared.
VariablesIndexedFromZero ==
    Compiled("segments") =>
        /\ jk_phase = "done"
        /\ jk_vm[1] = <<"f","u","n","c","t","i","o","n"," ","M","a","i","n",".","m"," ">> \o str(jack_class.locals)
        /\ jack_class.variable # <<>> =>
               LET first == CASE jack_class.kind = <<"f","u","n","c","t","i","o","n">> -> 2
                              [] jack_class.kind = <<"m","e","t","h","o","d">> -> 4
                              [] jack_class.kind = <<"c","o","n","s","t","r","u","c","t","o","r">> -> 5
                   place == SegmentAndIndex(jack_class.variable[1],
                                jack_class.variable[2], jack_class.kind)
               IN  /\ jk_vm[first] = <<"p","u","s","h"," ">> \o place
                   /\ jk_vm[first + 1] = <<"p","o","p"," ">> \o place

\* a method has compiled `let a2 = a2;`, with two statics, two fields and
\* two locals declared
SecondParameterOfMethodCompiled ==
    /\ Compiled("segments")
    /\ jack_class.kind = <<"m","e","t","h","o","d">>
    /\ jack_class.variable = <<"argument", 2>>
    /\ jack_class.class_vars = 2
    /\ jack_class.locals = 2
    /\ jk_phase = "done"

---------------------------------------------------------------------------
(* Jack compiler: process_file *)

JackTokens(class) ==
    CASE class.family = "empty" -> <<>>
      [] class.family = "calls" -> CallClassTokens(class)
      [] class.family = "ops" -> OpClassTokens(class)
      [] class.family = "scopes" -> ScopeClassTokens(class)
      [] class.family = "branching" -> BranchingClassTokens(class)
      [] class.family = "arrays" -> ArrayClassTokens(class)
      [] class.family = "broken" -> BrokenClassTokens(class)
      [] class.family = "unary" -> UnaryClassTokens(class)
      [] class.family = "segments" -> SegmentClassTokens(class)

\* process_file up to the call of eat_class
ProcessFile ==
    /\ jk_phase = "ready"
    /\ jk_phase' = "compiling"
    /\ jk_scope' = jack_new_scope(JackTokens(jack_class))
    /\ jk_calls' = <<called(delayed("eat_class", <<existing_classes>>))>>
    /\ UNCHANGED <<jack_class, jk_returned, jk_vm, tok_vars>>
    /\ UNCHANGED <<asm_vars, enc_vars, tr_vars, hack_vars>>

NextJack ==
    \/ ProcessFile
    \/ JackCall
    \/ JackReturnCall
    \/ JackReturn
    \/ JackRaise
    \/ ProcessFileEnd

\* the compiler about to run on a class of the set
JackReady(classes) ==
    /\ jack_class \in classes
    /\ jk_phase = "ready"
    /\ jk_scope = <<>>
    /\ jk_calls = <<>>
    /\ jk_returned = <<>>
    /\ jk_vm = <<>>
    /\ tk_text = <<>> /\ tk_phase = "idle" /\ tk_chars = <<>> /\ tk_tokens = <<>>
    /\ AsmIdle /\ EncIdle /\ TrIdle /\ HackIdle

InitJackCalls == JackReady(CallClasses \cup {EmptyFile})

SpecJackCalls == InitJackCalls /\ [][NextJack]_vars

InitJackOps == JackReady(OpClasses \cup {EmptyFile})

SpecJackOps == InitJackOps /\ [][NextJack]_vars

InitJackScopes == JackReady(ScopeClasses \cup {EmptyFile})

SpecJackScopes == InitJackScopes /\ [][NextJack]_vars

InitJackBranching == JackReady(BranchingClasses \cup {EmptyFile})

SpecJackBranching == InitJackBranching /\ [][NextJack]_vars

InitJackArrays == JackReady(ArrayClasses \cup {EmptyFile})

SpecJackArrays == InitJackArrays /\ [][NextJack]_vars

InitJackBroken == JackReady(BrokenClasses \cup {EmptyFile})

SpecJackBroken == InitJackBroken /\ [][NextJack]_vars

InitJackUnary == JackReady(UnaryClasses \cup {EmptyFile})

SpecJackUnary == InitJackUnary /\ [][NextJack]_vars

InitJackSegments == JackReady(SegmentClasses \cup {EmptyFile})

SpecJackSegments == InitJackSegments /\ [][NextJack]_vars

---------------------------------------------------------------------------
(* The Jack tokenizer (projects/11_compiler/compiler.py, tokenize).        *)
(*                                                                         *)
(* tokenize goes through the text one token at a time: tk_chars is the     *)
(* text left and tk_tokens the tokens found.  What the function that eats  *)
(* the rest of a token returns, (word, chars), is <<"ok", word, chars>>,   *)
(* and <<exception>> when it raises.                                       *)

is_blank(c) == c \in Whitespace

is_symbol(c) ==
    c \in {"{", "}", "(", ")", "[", "]", ".", ",", ";", "+", "-", "*", "/", "&",
           "|", "<", ">", "=", "~"}

is_integer(c) == IsDigit(c)

is_string(c) == c = "\""

is_keyword(string) ==
    string \in {<<"c","l","a","s","s">>, <<"c","o","n","s","t","r","u","c","t","o","r">>, <<"f","u","n","c","t","i","o","n">>, <<"m","e","t","h","o","d">>, <<"f","i","e","l","d">>,
                <<"s","t","a","t","i","c">>, <<"v","a","r">>, <<"i","n","t">>, <<"c","h","a","r">>, <<"b","o","o","l","e","a","n">>, <<"v","o","i","d">>, <<"t","r","u","e">>,
                <<"f","a","l","s","e">>, <<"n","u","l","l">>, <<"t","h","i","s">>, <<"l","e","t">>, <<"d","o">>, <<"i","f">>, <<"e","l","s","e">>,
                <<"w","h","i","l","e">>, <<"r","e","t","u","r","n">>}

is_identifier_char(c) ==
    \/ c = "_"
    \/ IsDigit(c)
    \/ \E k \in 1..26 : c \in {LowerCase[k], UpperCase[k]}

eat_char(chars) == <<chars[1], Tail(chars)>>

\* the i a loop `while test(chars[i]): i += 1` started at i = first ends
\* with (0-based), or Len(chars) when chars[i] runs out of the text
loop_end(chars, first, test(_)) ==
    IF \E k \in (first + 1)..Len(chars) : ~ test(chars[k])
    THEN (CHOOSE k \in (first + 1)..Len(chars) :
              ~ test(chars[k]) /\ \A j \in (first + 1)..(k - 1) : test(chars[j])) - 1
    ELSE Len(chars)

eat_integer(chars, first_digit) ==
    IF chars = <<>> THEN <<"IndexError">>
    ELSE IF ~ is_integer(chars[1]) THEN <<"ok", <<first_digit>>, chars>>
    ELSE LET i == loop_end(chars, 1, is_integer)
         IN  IF i = Len(chars) THEN <<"IndexError">>
             ELSE IF int(<<first_digit>> \o SubSeq(chars, 1, i)) > 32767
                  THEN <<"ValueError">>
             ELSE <<"ok", <<first_digit>> \o SubSeq(chars, 1, i),
                    SubSeq(chars, i + 1, Len(chars))>>

is_not_quote(c) == c # "\""

eat_string(chars) ==
    LET i == loop_end(chars, 0, is_not_quote)
    IN  IF i = Len(chars) THEN <<"IndexError">>
        ELSE <<"ok", SubSeq(chars, 1, i), SubSeq(chars, i + 2, Len(chars))>>

\* eat_identifier_or_keyword leaving the first character out of a word of
\* several characters
eat_identifier_or_keyword_without_first(chars, first_char) ==
    IF chars = <<>> THEN <<"IndexError">>
    ELSE IF ~ is_identifier_char(chars[1]) THEN <<"ok", <<first_char>>, chars>>
    ELSE LET i == loop_end(chars, 1, is_identifier_char)
         IN  IF i = Len(chars) THEN <<"IndexError">>
             ELSE <<"ok", SubSeq(chars, 1, i), SubSeq(chars, i + 1, Len(chars))>>

eat_identifier_or_keyword(chars, first_char) ==
    IF chars = <<>> THEN <<"IndexError">>
    ELSE IF ~ is_identifier_char(chars[1]) THEN <<"ok", <<first_char>>, chars>>
    ELSE LET i == loop_end(chars, 1, is_identifier_char)
         IN  IF i = Len(chars) THEN <<"IndexError">>
             ELSE <<"ok", <<first_char>> \o SubSeq(chars, 1, i),
                    SubSeq(chars, i + 1, Len(chars))>>

\* one turn of tokenize's loop: <<"ok", chars, tokens>> or <<exception>>
tokenize(chars, tokens) ==
    LET c == eat_char(chars)[1]
        rest == eat_char(chars)[2]
        eaten == IF is_integer(c) THEN eat_integer(rest, c)
                 ELSE IF is_string(c) THEN eat_string(rest)
                 ELSE eat_identifier_or_keyword(rest, c)
    IN  IF is_blank(c) THEN <<"ok", rest, tokens>>
        ELSE IF is_symbol(c) THEN <<"ok", rest, Append(tokens, tag_word(<<c>>, <<"s","y","m","b","o","l">>))>>
        ELSE IF eaten[1] # "ok" THEN <<eaten[1]>>
        ELSE <<"ok", eaten[3],
               Append(tokens,
                   tag_word(eaten[2],
                       IF is_integer(c) THEN <<"i","n","t","e","g","e","r","C","o","n","s","t","a","n","t">>
                       ELSE IF is_string(c) THEN <<"s","t","r","i","n","g","C","o","n","s","t","a","n","t">>
                       ELSE IF is_keyword(eaten[2]) THEN <<"k","e","y","w","o","r","d">>
                       ELSE <<"i","d","e","n","t","i","f","i","e","r">>))>>

\* tokenize eats a token, or a blank
TokenizeStep ==
    /\ tk_phase = "tokenizing"
    /\ tk_chars # <<>>
    /\ tokenize(tk_chars, tk_tokens)[1] = "ok"
    /\ tk_chars' = tokenize(tk_chars, tk_tokens)[2]
    /\ tk_tokens' = tokenize(tk_chars, tk_tokens)[3]
    /\ UNCHANGED <<tk_text, tk_phase>>
    /\ UNCHANGED <<asm_vars, enc_vars, tr_vars, hack_vars, compiler_vars>>

\* eat_integer, eat_string or eat_identifier_or_keyword raises: tokenize
\* returns no tokens
TokenizeRaise ==
    /\ tk_phase = "tokenizing"
    /\ tk_chars # <<>>
    /\ tokenize(tk_chars, tk_tokens)[1] # "ok"
    /\ tk_phase' = tokenize(tk_chars, tk_tokens)[1]
    /\ UNCHANGED <<tk_text, tk_chars, tk_tokens>>
    /\ UNCHANGED <<asm_vars, enc_vars, tr_vars, hack_vars, compiler_vars>>

\* no text is left: tokenize returns tokens
TokenizeEnd ==
    /\ tk_phase = "tokenizing"
    /\ tk_chars = <<>>
    /\ tk_phase' = "done"
    /\ UNCHANGED <<tk_text, tk_chars, tk_tokens>>
    /\ UNCHANGED <<asm_vars, enc_vars, tr_vars, hack_vars, compiler_vars>>

NextTokenize == TokenizeStep \/ TokenizeRaise \/ TokenizeEnd

\* tokenize is called on a text of the set
TokenizeReady(texts) ==
    /\ tk_text \in texts
    /\ tk_phase = "tokenizing"
    /\ tk_chars = tk_text
    /\ tk_tokens = <<>>
    /\ jack_class = <<>> /\ jk_phase = "idle" /\ jk_scope = <<>> /\ jk_calls = <<>>
    /\ jk_returned = <<>> /\ jk_vm = <<>>
    /\ AsmIdle /\ EncIdle /\ TrIdle /\ HackIdle

---------------------------------------------------------------------------
(* Jack tokenizer: integer constants *)

MaxDigits == 5

\* the digits the constants are written with: those of 32767 and 32768, and 0
ConstantDigits == {"0", "2", "3", "6", "7", "8"}

\* what follows the constant in the text: nothing, `;` or ` x;`
AfterConstant == {<<>>, <<";">>, <<" ","x",";">>}

\* the texts made of an integer constant and of what follows it
IntegerTexts ==
    {digits \o after : digits \in SeqsUpTo(ConstantDigits, MaxDigits) \ {<<>>},
                       after \in AfterConstant}

\* the digits the text starts with
LeadingDigits(text) == SubSeq(text, 1, loop_end(text, 0, is_integer))

\* tokenize has returned or raised
Tokenized == tk_phase \notin {"idle", "tokenizing"}

\* C21: a text that starts with an integer constant of at most 32767 is
\* tokenized, its first token being the integerConstant of all the digits
\* of the constant; tokenize raises on a constant above 32767.
IntegerConstantsUpTo32767 ==
    Tokenized =>
        IF int(LeadingDigits(tk_text)) <= 32767
        THEN /\ tk_phase = "done"
             /\ tk_tokens[1] = tag_word(LeadingDigits(tk_text), <<"i","n","t","e","g","e","r","C","o","n","s","t","a","n","t">>)
        ELSE tk_phase # "done"

\* the same for the constants that are not the end of the text
IntegerConstantsBeforeTheEnd ==
    Tokenized /\ LeadingDigits(tk_text) # tk_text => IntegerConstantsUpTo32767

\* tokenize has stopped on the text 32767
TextOf32767Tokenized ==
    Tokenized /\ tk_text = <<"3","2","7","6","7">>

InitIntegers == TokenizeReady(IntegerTexts)

SpecIntegers == InitIntegers /\ [][NextTokenize]_vars

---------------------------------------------------------------------------
(* Jack tokenizer: the tokens written again *)

MaxTokens == 3

\* the tokens the sources are written with: a keyword, an identifier, two
\* integer constants, two symbols and two string constants
TokenTexts ==
    { <<"l","e","t">>, <<"x">>, <<"7">>, <<"1","2">>, <<";">>, <<"=">>,
      <<"\"", "a", " ", "b", "\"">>, <<"\"", "x", "\"">> }

\* the sources of at most MaxTokens tokens, one space between two tokens
NormalizedSources ==
    {join(<<" ">>, source) : source \in SeqsUpTo(TokenTexts, MaxTokens)}

\* tokenize(chars), all the turns of its loop: <<"ok", tokens>> or <<exception>>
RECURSIVE tokenize_from(_, _)
tokenize_from(chars, tokens) ==
    IF chars = <<>> THEN <<"ok", tokens>>
    ELSE IF tokenize(chars, tokens)[1] # "ok" THEN <<tokenize(chars, tokens)[1]>>
    ELSE tokenize_from(tokenize(chars, tokens)[2], tokenize(chars, tokens)[3])

\* the values of the tokens, one space between two values
Reserialized(tokens) ==
    join(<<" ">>, [i \in 1..Len(tokens) |-> get_token_value(tokens[i])])

\* tokenize has returned tokens, and no string constant
TokenizedWithoutString ==
    /\ tk_phase = "done"
    /\ \A i \in 1..Len(tk_tokens) : get_token_type(tk_tokens[i]) # <<"s","t","r","i","n","g","C","o","n","s","t","a","n","t">>

InitRoundTrip == TokenizeReady(NormalizedSources)

SpecRoundTrip == InitRoundTrip /\ [][NextTokenize]_vars

---------------------------------------------------------------------------
(* One C-instruction through assemble_c_instruction, its fields legal or not *)

\* the texts written with A, D and M, each at most once, in any order
AnyOrderDests ==
    {dest \in SeqsUpTo({"A", "D", "M"}, 3) :
        \A i, j \in 1..Len(dest) : i # j => dest[i] # dest[j]}

\* texts that are no dest, no comp and no jump
UnknownDests == {<<"X">>, <<"A","A">>, <<"M","D","M">>}

UnknownComps == {<<"D","+","D">>, <<"A","+","D">>, <<"2">>}

UnknownJumps == {<<"J","X","X">>, <<"j","m","p">>}

SomeComps == {<<"D","+","1">>, <<"M">>, <<"0">>}

SomeJumps == {<<>>, <<"J","M","P">>, <<"J","G","T">>}

InitEncAny ==
    /\ c_fields \in [dest : AnyOrderDests \cup UnknownDests,
                     comp : SomeComps \cup UnknownComps,
                     jump : SomeJumps \cup UnknownJumps]
    /\ c_instruction = c_text(c_fields)
    /\ c_binary = <<>>
    /\ AsmIdle
    /\ TrIdle
    /\ HackIdle
    /\ JackIdle

SpecEncAny == InitEncAny /\ [][NextEnc]_vars

\* the C-instruction has been through assemble_c_instruction
Assembled == c_binary # <<>>

\* the three dest bits of the line: A, D, M
DestBits == SubSeq(c_binary, 11, 13)

\* C26: a dest written with A, D and M, each at most once and in any order
\* (MD, DM, AMD, ADM), assembles to the three bits that tell the presence of
\* A, of D and of M; a dest, a comp or a jump that is none of the known ones
\* raises an error, and no line is written.
DestBitsInAnyOrder ==
    Assembled =>
        IF /\ c_fields.dest \in AnyOrderDests
           /\ c_fields.comp \in Comps
           /\ c_fields.jump \in Jumps
        THEN /\ c_binary # ValueError
             /\ DestBits = <<Bit(Has(c_fields.dest, "A")), Bit(Has(c_fields.dest, "D")),
                             Bit(Has(c_fields.dest, "M"))>>
        ELSE c_binary = ValueError

\* the same with the dests of assemble_dest (A, D, M, AD, AM, MD, ADM and
\* none) in place of the dests of any order
DestBitsOfLegalDests ==
    Assembled =>
        IF /\ c_fields.dest \in LegalDests
           /\ c_fields.comp \in Comps
           /\ c_fields.jump \in Jumps
        THEN /\ c_binary # ValueError
             /\ DestBits = <<Bit(Has(c_fields.dest, "A")), Bit(Has(c_fields.dest, "D")),
                             Bit(Has(c_fields.dest, "M"))>>
        ELSE c_binary = ValueError

\* AMD=D+1 has been through assemble_c_instruction
AMDAssembled ==
    /\ Assembled
    /\ c_instruction = <<"A","M","D","=","D","+","1">>

---------------------------------------------------------------------------
(* The assembler on programs that name the predefined symbols *)

PredefinedAlphabet == {<<"(","S","P",")">>, <<"(","R","5",")">>, <<"@","S","P">>, <<"@","R","5">>, <<"D","=","M">>}

PredefinedPrograms == UNION {[1..n -> PredefinedAlphabet] : n \in 0..MaxAsmLines}

InitAsmPredefined ==
    /\ asm_file \in PredefinedPrograms
    /\ a_phase = "labels"
    /\ a_i = 1
    /\ program_counter = 0
    /\ variable_counter = 16
    /\ symbol_table = default_symbol_table
    /\ a_out = <<>>
    /\ EncIdle
    /\ TrIdle
    /\ HackIdle
    /\ JackIdle

SpecAsmPredefined == InitAsmPredefined /\ [][NextAsm]_vars

\* the label pass and the variable pass are over
PassesOver == a_phase \in {"emit", "done"}

\* the program defines a label
DefinesSomeLabel == \E k \in 1..Len(asm_file) : is_label(asm_file[k])

\* C30: after the label pass and the variable pass the symbol table maps each
\* predefined name (SP, LCL, ARG, THIS, THAT, R0..R15, SCREEN, KBD) to its
\* address: a label such as (SP) or (R5) does not rebind it.
PredefinedNamesKeepTheirAddress ==
    PassesOver =>
        \A key \in PredefinedNames : symbol_table[key] = default_symbol_table[key]

\* the same for the programs that define no label
PredefinedNamesKeptWithoutLabel ==
    (PassesOver /\ ~ DefinesSomeLabel) => PredefinedNamesKeepTheirAddress

\* the passes are over for the program @SP, D=M, (SP), @SP
SPDefinedAsLabel ==
    /\ PassesOver
    /\ asm_file = << <<"@","S","P">>, <<"D","=","M">>, <<"(","S","P",")">>, <<"@","S","P">> >>

---------------------------------------------------------------------------
(* The Hack machine on a function called twice *)

\* Main.f, with k locals, is called with MaxArgs arguments and then with
\* none: the locals of the second call lie where the first call saved the
\* caller's pointers
FunctionPrograms ==
    {<<instruction3(<<"c","a","l","l">>, <<"M","a","i","n",".","f">>, MaxArgs), instruction3(<<"c","a","l","l">>, <<"M","a","i","n",".","f">>, 0),
       <<"l","a","b","e","l"," ","E","N","D">>, <<"g","o","t","o"," ","E","N","D">>, instruction3(<<"f","u","n","c","t","i","o","n">>, <<"M","a","i","n",".","f">>, k),
       instruction3(<<"p","u","s","h">>, <<"c","o","n","s","t","a","n","t">>, v), <<"r","e","t","u","r","n">>>> :
        k \in 0..MaxLocals, v \in ReturnValues}

InitHackFunction ==
    /\ vm_program \in FunctionPrograms
    /\ starts = <<>>
    /\ ROM = <<>>
    /\ PC = 0
    /\ reg_A = 0
    /\ reg_D = 0
    /\ RAM = <<>>
    /\ entry = NoEntry
    /\ tr_file_path = VmFile
    /\ vm_lines = <<>>
    /\ tr_scope = get_scope(VmFile)
    /\ tr_asm_code_lines = <<>>
    /\ AsmIdle
    /\ EncIdle
    /\ JackIdle

SpecHackFunction == InitHackFunction /\ [][NextHack]_vars

\* the cells that hold another word than when the instruction began
ChangedCells ==
    {a \in (DOMAIN RAM) \cup (DOMAIN entry.ram) : Read(RAM, a) # Read(entry.ram, a)}

\* C27: when `function f n`, begun with LCL = SP = s, has run, RAM[s] to
\* RAM[s+n-1] hold 0, SP is s + n and LCL is s; nothing else has changed,
\* and with n = 0 no cell has.
FunctionZeroesItsLocals ==
    (Completed({<<"f","u","n","c","t","i","o","n">>}) /\ Read(entry.ram, 1) = SPBefore) =>
        LET s == SPBefore
            n == ArgsOf(Instruction)
        IN  /\ \A a \in s..(s + n - 1) : Read(RAM, a) = 0
            /\ Read(RAM, 0) = s + n
            /\ Read(RAM, 1) = s
            /\ ChangedCells \subseteq {0} \cup (s..(s + n - 1))
            /\ n = 0 => ChangedCells = {}

\* a function with a local has run: the local's cell held the THAT of the
\* first call's caller
FunctionZeroedUsedCell ==
    /\ Completed({<<"f","u","n","c","t","i","o","n">>})
    /\ ArgsOf(Instruction) >= 1
    /\ Read(entry.ram, 1) = SPBefore
    /\ Read(entry.ram, SPBefore) = 330
    /\ Read(RAM, SPBefore) = 0

---------------------------------------------------------------------------
(* The Hack machine: what return writes *)

\* C29: when `return` has run, no cell differs from the memory it began
\* with other than SP, LCL, ARG, THIS, THAT and RAM[ARG], the place of the
\* returned value; the cells of temp, RAM[5] to RAM[12], hold what they held.
ReturnChangesOnlyThePointers ==
    Completed({<<"r","e","t","u","r","n">>}) =>
        /\ ChangedCells \subseteq (0..4) \cup {Read(entry.ram, 2)}
        /\ \A a \in 5..12 : Read(RAM, a) = Read(entry.ram, a)

\* the same, RAM[5], RAM[6] and RAM[7] (temp 0, 1 and 2) left aside
ReturnChangesThePointersAndThreeTemps ==
    Completed({<<"r","e","t","u","r","n">>}) =>
        /\ ChangedCells \subseteq (0..7) \cup {Read(entry.ram, 2)}
        /\ \A a \in 8..12 : Read(RAM, a) = Read(entry.ram, a)

\* a return of the value 13 has run
ReturnOf13Run ==
    /\ Completed({<<"r","e","t","u","r","n">>})
    /\ TopBefore = 13

---------------------------------------------------------------------------
(* The Hack machine: pop *)

\* every pop alone, and a pop static 0 in the file and in a function whose
\* name begins with another word than the file's
PopPrograms ==
    {<<instruction3(<<"p","o","p">>, seg, i)>> : seg \in PopSegments, i \in 0..MaxIndex}
        \cup {<<<<"p","o","p"," ","s","t","a","t","i","c"," ","0">>, <<"c","a","l","l"," ","O","t","h","e","r",".","g"," ","0">>, <<"l","a","b","e","l"," ","E","N","D">>, <<"g","o","t","o"," ","E","N","D">>,
                <<"f","u","n","c","t","i","o","n"," ","O","t","h","e","r",".","g"," ","0">>, <<"p","u","s","h"," ","c","o","n","s","t","a","n","t"," ","7">>, <<"p","o","p"," ","s","t","a","t","i","c"," ","0">>,
                <<"p","u","s","h"," ","c","o","n","s","t","a","n","t"," ","0">>, <<"r","e","t","u","r","n">>>>}

InitHackPop ==
    /\ vm_program \in PopPrograms
    /\ starts = <<>>
    /\ ROM = <<>>
    /\ PC = 0
    /\ reg_A = 0
    /\ reg_D = 0
    /\ RAM = <<>>
    /\ entry = NoEntry
    /\ tr_file_path = VmFile
    /\ vm_lines = <<>>
    /\ tr_scope = get_scope(VmFile)
    /\ tr_asm_code_lines = <<>>
    /\ AsmIdle
    /\ EncIdle
    /\ JackIdle

SpecHackPop == InitHackPop /\ [][NextHack]_vars

\* the cell of seg[i] when the instruction began: base pointer + i for
\* local, argument, this and that, RAM[3 + i] for pointer, RAM[5 + i] for
\* temp, the symbol File.i for static
CellOf(seg, i) ==
    CASE seg = <<"l","o","c","a","l">> -> Read(entry.ram, 1) + i
      [] seg = <<"a","r","g","u","m","e","n","t">> -> Read(entry.ram, 2) + i
      [] seg = <<"t","h","i","s">> -> Read(entry.ram, 3) + i
      [] seg = <<"t","h","a","t">> -> Read(entry.ram, 4) + i
      [] seg = <<"p","o","i","n","t","e","r">> -> 3 + i
      [] seg = <<"t","e","m","p">> -> 5 + i
      [] seg = <<"s","t","a","t","i","c">> -> symbol_table[<<"@">> \o FileStem \o <<".">> \o str(i)]

\* C28: when `pop seg i`, begun at SP = s, has run, the cell of seg[i] holds
\* the word RAM[s-1] held, SP is s - 1, and no other cell has changed but
\* RAM[s], the cell above the new top of the stack.
PopStoresTheTop ==
    Completed({<<"p","o","p">>}) =>
        LET s == SPBefore
            cell == CellOf(split(Instruction, " ")[2], ArgsOf(Instruction))
        IN  /\ Read(RAM, cell) = TopBefore
            /\ Read(RAM, 0) = s - 1
            /\ ChangedCells \subseteq {0, cell, s}

\* the same for the pops that are in no function
PopStoresTheTopOutsideFunctions ==
    (Completed({<<"p","o","p">>}) /\ EnclosingFunction(vm_program, entry.idx) = <<>>)
        => PopStoresTheTop

\* the pop static 0 of Other.g has run
PopStaticInOtherFunctionRun ==
    /\ Completed({<<"p","o","p">>})
    /\ EnclosingFunction(vm_program, entry.idx) = <<"O","t","h","e","r",".","g">>

===========================================================================
